---- MODULE Spec2Model ----
(***************************************************************************)
(* Model of the resumable SAT question import pipeline                     *)
(* (scripts/sat_import_resumable_ui.py) and of the one-shot importer       *)
(* (scripts/populate_sat_questions_final.py).                              *)
(*                                                                         *)
(* Fault model: the vendor API and the backend table may fail per call     *)
(* (timeout, transport error, non-success status); the local progress file *)
(* is written without error.                                               *)
(***************************************************************************)
EXTENDS Integers, Sequences, FiniteSets, TLC

VARIABLES
    overview_data,      \* vendor side: combo key -> overview list (stable)
    table,              \* backend table "questions": set of rows
    progress_data,      \* SATImportProgressManager.progress_data (in memory)
    progress_file,      \* content of PROGRESS_FILE on durable storage
    calls,              \* number of menu operations performed so far
    last,               \* the last menu operation: arguments and results
    call,               \* one import_with_resume call: arguments and result
    runs,               \* two-run scenarios: inputs, phase and first result
    ref_table,          \* single-run reference of the resume scenario: table
    ref_progress,       \* single-run reference of the resume scenario: progress
    final,              \* SATQuestionImporter of populate_sat_questions_final
    ui,                 \* SATImportUI of sat_import_ui.py and its progress file
    pure                \* a pure function under test: its input and its result

vars == <<overview_data, table, progress_data, progress_file, calls, last,
          call, runs, ref_table, ref_progress, final, ui, pure>>

-----------------------------------------------------------------------------
(* Bounds *)

MaxLen == 2         \* longest overview list
MaxCalls == 2       \* menu operations per behaviour
MaxDomains == 2     \* domains the one-shot importer processes per behaviour

-----------------------------------------------------------------------------
(* Values *)

None == "None"

Truthy(v) == v # None /\ v # ""

Min(a, b) == IF a <= b THEN a ELSE b

RATE_LIMIT_THRESHOLD == 422

\* A prefix of the iteration order of TEST_CONFIG x EVENT_IDS.
ComboOrder == <<"T1-INI-99", "T1-INI-100">>

Combos == {ComboOrder[k] : k \in 1..Len(ComboOrder)}

\* Skill codes are character sequences, so that startswith is computed.
SAT_SKILL_MAPPING ==
    ( <<"H", ".", "A", ".">> :> "linear-equations-one-var"
   @@ <<"H", ".", "B", ".">> :> "linear-functions"
   @@ <<"H", ".", "C", ".">> :> "linear-equations-two-var"
   @@ <<"H", ".", "D", ".">> :> "systems-linear-equations"
   @@ <<"H", ".", "E", ".">> :> "linear-inequalities"
   @@ <<"P", ".", "A", ".">> :> "equivalent-expressions"
   @@ <<"P", ".", "B", ".">> :> "nonlinear-equations-systems"
   @@ <<"P", ".", "C", ".">> :> "nonlinear-functions"
   @@ <<"Q", ".", "A", ".">> :> "ratios-rates-proportions"
   @@ <<"Q", ".", "B", ".">> :> "percentages"
   @@ <<"Q", ".", "C", ".">> :> "one-variable-data"
   @@ <<"Q", ".", "D", ".">> :> "two-variable-data"
   @@ <<"Q", ".", "E", ".">> :> "probability-conditional"
   @@ <<"Q", ".", "F", ".">> :> "inference-statistics"
   @@ <<"Q", ".", "G", ".">> :> "statistical-claims"
   @@ <<"S", ".", "A", ".">> :> "area-volume"
   @@ <<"S", ".", "B", ".">> :> "lines-angles-triangles"
   @@ <<"S", ".", "C", ".">> :> "right-triangles-trigonometry"
   @@ <<"S", ".", "D", ".">> :> "circles"
   @@ <<"C", "I", "D">> :> "central-ideas-details"
   @@ <<"I", "N", "F">> :> "inferences"
   @@ <<"C", "O", "E">> :> "command-evidence"
   @@ <<"W", "I", "C">> :> "words-in-context"
   @@ <<"T", "S", "P">> :> "text-structure-purpose"
   @@ <<"C", "T", "C">> :> "cross-text-connections"
   @@ <<"S", "Y", "N">> :> "rhetorical-synthesis"
   @@ <<"T", "R", "A">> :> "transitions"
   @@ <<"B", "O", "U">> :> "boundaries"
   @@ <<"F", "S", "S">> :> "form-structure-sense" )

startswith(s, p) ==
    /\ Len(s) >= Len(p)
    /\ \A k \in 1..Len(p) : s[k] = p[k]

\* get_domain_subject_mapping with the prefix rules of the math codes only.
get_domain_subject_mapping_math_only(skill_code) ==
    IF startswith(skill_code, <<"H", ".">>) THEN <<"algebra", "math">>
    ELSE IF startswith(skill_code, <<"P", ".">>) THEN <<"advanced-math", "math">>
    ELSE IF startswith(skill_code, <<"Q", ".">>)
        THEN <<"problem-solving-data-analysis", "math">>
    ELSE IF startswith(skill_code, <<"S", ".">>)
        THEN <<"geometry-trigonometry", "math">>
    ELSE <<None, None>>

get_domain_subject_mapping(skill_code) ==
    IF startswith(skill_code, <<"H", ".">>) THEN <<"algebra", "math">>
    ELSE IF startswith(skill_code, <<"P", ".">>) THEN <<"advanced-math", "math">>
    ELSE IF startswith(skill_code, <<"Q", ".">>)
        THEN <<"problem-solving-data-analysis", "math">>
    ELSE IF startswith(skill_code, <<"S", ".">>)
        THEN <<"geometry-trigonometry", "math">>
    ELSE IF skill_code \in {<<"C", "I", "D">>, <<"I", "N", "F">>, <<"C", "O", "E">>}
        THEN <<"information-ideas", "english">>
    ELSE IF skill_code \in {<<"W", "I", "C">>, <<"T", "S", "P">>, <<"C", "T", "C">>}
        THEN <<"craft-structure", "english">>
    ELSE IF skill_code \in {<<"S", "Y", "N">>, <<"T", "R", "A">>}
        THEN <<"expression-ideas", "english">>
    ELSE IF skill_code \in {<<"B", "O", "U">>, <<"F", "S", "S">>}
        THEN <<"standard-english-conventions", "english">>
    ELSE <<None, None>>

-----------------------------------------------------------------------------
(* Vendor data the model draws from *)

OvItem(e, i, s) == [external_id |-> e, ibn |-> i, skill_cd |-> s]

\* new-format item, known skill; new-format item, unknown skill;
\* legacy item, known skill; item without any identifier
Items ==
    { OvItem("Q1", None, <<"H", ".", "A", ".">>),
      OvItem("Q2", None, <<"Z", "Z", "Z">>),
      OvItem(None, "I1", <<"C", "I", "D">>),
      OvItem(None, None, <<"H", ".", "A", ".">>) }

RECURSIVE SeqsUpTo(_, _)
SeqsUpTo(S, n) ==
    IF n = 0 THEN {<<>>}
    ELSE LET shorter == SeqsUpTo(S, n - 1)
         IN  shorter \cup {Append(s, x) : s \in {t \in shorter : Len(t) = n - 1}, x \in S}

OverviewLists == SeqsUpTo(Items, MaxLen)

\* The menu operations see an item only through the counter it lands in:
\* they are run on lists of a new-format item and an item without identifier.
MenuItems ==
    {it \in Items : it.skill_cd \in DOMAIN SAT_SKILL_MAPPING /\ it.ibn = None}

MenuOverviews == SeqsUpTo(MenuItems, MaxLen)

\* What the environment does to the calls made for one item.
ItemEnvs == {"ok", "fetch_fail", "check_err", "upsert_err"}

\* Python's None where the model needs a value of the type of the field.
Absent == "absent"

\* An answer option of a new-format detail; has_id is whether it has an 'id'.
Option(id, has_id) == [id |-> id, has_id |-> has_id]

\* A new-format detail (JSON object): type (or Absent), answerOptions (a
\* list, empty when Absent), keys (a list of strings; when keys_is_str the
\* payload holds the one string keys[1] instead of a list).
NewDetail(type, answerOptions, keys, keys_is_str) ==
    [shape |-> "dict", type |-> type, answerOptions |-> answerOptions,
     keys |-> keys, keys_is_str |-> keys_is_str]

\* A legacy detail: a list whose first element has answer.style (or Absent),
\* answer.choices (the keys of the mapping, in order) and
\* answer.correct_choice ("" when Absent); shape is "list" for a non-empty
\* list and "dict" for a JSON object.
LegacyDetail(shape, style, choices, correct_choice) ==
    [shape |-> shape, style |-> style, choices |-> choices,
     correct_choice |-> correct_choice]

\* The detail payloads a successful fetch returns in the import runs.
DetailMcq ==
    NewDetail("mcq", <<Option("1", TRUE), Option("2", TRUE)>>, <<"A">>, FALSE)

DetailLegacy ==
    LegacyDetail("list", "Multiple Choice", <<<<"a">>, <<"b">>>>, <<"a">>)

\* The None a failed detail fetch returns.
NoDetail == [null |-> TRUE]

-----------------------------------------------------------------------------
(* Backend table: the calls ResumableSATImporter makes on it *)

check_question_exists_by_external_id(tbl, external_id, e) ==
    IF e = "check_err" THEN FALSE      \* except: return False
    ELSE \E r \in tbl : r.sat_external_id = external_id

\* check_question_exists_by_ibn that never finds a row.
check_question_exists_by_ibn_blind(tbl, ibn, e) == FALSE

check_question_exists_by_ibn(tbl, ibn, e) ==
    IF e = "check_err" THEN FALSE
    ELSE \E r \in tbl : r.sat_ibn = ibn

\* upsert that inserts the row whatever the table holds.
upsert_no_conflict(tbl, data, on_conflict, e) ==
    IF e = "upsert_err" THEN [raised |-> TRUE, table |-> tbl, data |-> {}]
    ELSE [raised |-> FALSE, table |-> tbl \cup {data}, data |-> {data}]

\* upsert(data, on_conflict=col, ignore_duplicates=True).execute():
\* a row that collides on col is ignored and nothing is returned; a row that
\* collides on the other identity column violates its unique index.
upsert(tbl, data, on_conflict, e) ==
    LET other == IF on_conflict = "sat_external_id" THEN "sat_ibn"
                 ELSE "sat_external_id"
    IN  IF e = "upsert_err"
            THEN [raised |-> TRUE, table |-> tbl, data |-> {}]
        ELSE IF \E r \in tbl : r[on_conflict] = data[on_conflict]
            THEN [raised |-> FALSE, table |-> tbl, data |-> {}]
        ELSE IF data[other] # None /\ \E r \in tbl : r[other] = data[other]
            THEN [raised |-> TRUE, table |-> tbl, data |-> {}]
        ELSE [raised |-> FALSE, table |-> tbl \cup {data}, data |-> {data}]

AddResult(status, tbl, sent) == [status |-> status, table |-> tbl, sent |-> sent]

\* skill_get with a fallback skill for a code the table does not hold.
skill_get_lenient(skill_code) ==
    IF skill_code \in DOMAIN SAT_SKILL_MAPPING THEN SAT_SKILL_MAPPING[skill_code]
    ELSE "unmapped-skill"

\* SAT_SKILL_MAPPING.get(skill_code)
skill_get(skill_code) ==
    IF skill_code \in DOMAIN SAT_SKILL_MAPPING THEN SAT_SKILL_MAPPING[skill_code]
    ELSE None

\* str.upper() on the letters the legacy keys are made of
upper_char(c) ==
    IF c = "a" THEN "A" ELSE IF c = "b" THEN "B" ELSE IF c = "c" THEN "C"
    ELSE IF c = "d" THEN "D" ELSE c

upper(str) == [k \in 1..Len(str) |-> upper_char(str[k])]

\* answer_options is None (null) or a list of options.
NoOptions == [null |-> TRUE, options |-> <<>>]

OptionList(options) == [null |-> FALSE, options |-> options]

\* question_type of the record
record_question_type(overview, question) ==
    IF Truthy(overview.external_id)
        THEN IF question.type = Absent THEN "mcq" ELSE question.type
    ELSE IF question.shape = "list" /\ question.style = "SPR" THEN "spr"
    ELSE "mcq"

\* answer_options of the record
record_answer_options(overview, question) ==
    IF Truthy(overview.external_id)
        THEN IF record_question_type(overview, question) = "mcq"
                /\ question.answerOptions # <<>>
             THEN OptionList([k \in 1..Len(question.answerOptions) |->
                     [id |-> question.answerOptions[k].id, is_correct |-> FALSE]])
             ELSE NoOptions
    ELSE IF question.shape = "list" /\ question.style # "SPR"
            /\ question.choices # <<>>
        THEN OptionList([k \in 1..Len(question.choices) |->
                [id |-> upper(question.choices[k]), is_correct |-> FALSE]])
    ELSE NoOptions

\* correct_answers of the record
record_correct_answers(overview, question) ==
    IF Truthy(overview.external_id)
        THEN IF question.keys_is_str THEN <<question.keys[1]>> ELSE question.keys
    ELSE IF question.shape = "list" /\ question.style # "SPR"
            /\ question.correct_choice # <<>>
        THEN <<upper(question.correct_choice)>>
    ELSE <<>>

\* The record add_question builds for the sink.
question_record(overview, question) ==
    [origin |-> IF Truthy(overview.ibn) THEN "sat_official_ibn" ELSE "sat_official",
     sat_external_id |-> overview.external_id,
     sat_ibn |-> overview.ibn,
     question_type |-> record_question_type(overview, question),
     skill_id |-> skill_get(overview.skill_cd),
     answer_options |-> record_answer_options(overview, question),
     correct_answers |-> record_correct_answers(overview, question),
     domain_id |-> get_domain_subject_mapping(overview.skill_cd)[1],
     subject_id |-> get_domain_subject_mapping(overview.skill_cd)[2]]

\* Building the record raises: the new-format branch calls question.get on
\* a payload that is not an object, or reads option['id'] of an option
\* without one.
record_raises(overview, question) ==
    /\ Truthy(overview.external_id)
    /\ \/ question.shape # "dict"
       \/ /\ record_question_type(overview, question) = "mcq"
          /\ \E k \in 1..Len(question.answerOptions) :
                ~question.answerOptions[k].has_id

\* The upsert request the sink receives: the record and the conflict column.
Request(data, on_conflict) == [data |-> data, on_conflict |-> on_conflict]

\* What add_question returns for the sink's response.
upsert_status(response, tbl, request) ==
    IF response.raised THEN AddResult("failed", tbl, {request})
    ELSE IF response.data # {} THEN AddResult("imported", response.table, {request})
    ELSE AddResult("duplicate", response.table, {request})

\* The conflict column add_question names.
conflict_column(external_id) ==
    IF Truthy(external_id) THEN "sat_external_id" ELSE "sat_ibn"

insert_question(tbl, data, on_conflict, e) ==
    upsert_status(upsert(tbl, data, on_conflict, e), tbl,
                  Request(data, on_conflict))

\* add_question without the checks of the skill and of the domain and subject.
add_question_unchecked(overview, question, tbl, e) ==
    IF ~Truthy(overview.external_id) /\ ~Truthy(overview.ibn)
        THEN AddResult("skipped", tbl, {})
    ELSE IF Truthy(overview.external_id)
            /\ check_question_exists_by_external_id(tbl, overview.external_id, e)
        THEN AddResult("duplicate", tbl, {})
    ELSE IF Truthy(overview.ibn) /\ check_question_exists_by_ibn(tbl, overview.ibn, e)
        THEN AddResult("duplicate", tbl, {})
    ELSE IF record_raises(overview, question)
        THEN AddResult("failed", tbl, {})
    ELSE insert_question(tbl, question_record(overview, question),
                         conflict_column(overview.external_id), e)

add_question(overview, question, tbl, e) ==
    LET external_id == overview.external_id
        ibn == overview.ibn
        skill_code == overview.skill_cd
    IN  IF ~Truthy(external_id) /\ ~Truthy(ibn)
            THEN AddResult("skipped", tbl, {})
        ELSE IF Truthy(external_id)
                /\ check_question_exists_by_external_id(tbl, external_id, e)
            THEN AddResult("duplicate", tbl, {})
        ELSE IF Truthy(ibn) /\ check_question_exists_by_ibn(tbl, ibn, e)
            THEN AddResult("duplicate", tbl, {})
        ELSE IF ~Truthy(skill_get(skill_code))
            THEN AddResult("skipped", tbl, {})
        ELSE IF ~Truthy(get_domain_subject_mapping(skill_code)[1])
                \/ ~Truthy(get_domain_subject_mapping(skill_code)[2])
            THEN AddResult("skipped", tbl, {})
        ELSE IF record_raises(overview, question)
            THEN AddResult("failed", tbl, {})
        ELSE insert_question(tbl, question_record(overview, question),
                             conflict_column(external_id), e)

-----------------------------------------------------------------------------
(* Remote fetcher of ResumableSATImporter *)

fetch_overview(ov, combo_key, oe) ==
    IF oe = "fail" THEN <<>> ELSE ov[combo_key]

fetch_question_details(external_id, ibn, e) ==
    IF ~Truthy(external_id) /\ ~Truthy(ibn) THEN NoDetail
    ELSE IF e = "fetch_fail" THEN NoDetail
    ELSE IF Truthy(external_id) THEN DetailMcq
    ELSE DetailLegacy

-----------------------------------------------------------------------------
(* ResumableSATImporter.import_with_resume *)

\* max_questions is <<>> for None and <<n>> for the integer n.
NoMax == <<>>

\* end_index of the processing window
window_end(start_index, max_questions, total_questions) ==
    IF max_questions # NoMax /\ max_questions[1] # 0
        THEN Min(start_index + max_questions[1], total_questions)
    ELSE Min(start_index + RATE_LIMIT_THRESHOLD, total_questions)

\* What one iteration did: fetches counts the detail requests issued, sent
\* holds the record handed to the sink (if any).
ItemResult(a, fetches) ==
    [status |-> a.status, table |-> a.table, fetches |-> fetches, sent |-> a.sent]

\* process_item with a failed detail fetch counted as skipped.
process_item_fetch_skipped(overview, tbl, e) ==
    IF ~Truthy(overview.external_id) /\ ~Truthy(overview.ibn)
        THEN ItemResult(AddResult("skipped", tbl, {}), 0)
    ELSE IF fetch_question_details(overview.external_id, overview.ibn, e) = NoDetail
        THEN ItemResult(AddResult("skipped", tbl, {}), 1)
    ELSE ItemResult(
            add_question(overview,
                         fetch_question_details(overview.external_id, overview.ibn, e),
                         tbl, e),
            1)

\* One iteration of the loop over range(start_index, end_index).
process_item(overview, tbl, e) ==
    IF ~Truthy(overview.external_id) /\ ~Truthy(overview.ibn)
        THEN ItemResult(AddResult("skipped", tbl, {}), 0)
    ELSE IF fetch_question_details(overview.external_id, overview.ibn, e) = NoDetail
        THEN ItemResult(AddResult("failed", tbl, {}), 1)
    ELSE ItemResult(
            add_question(overview,
                         fetch_question_details(overview.external_id, overview.ibn, e),
                         tbl, e),
            1)

\* overview_list[i] with Python's negative indices: the 1-based position
PyIndex(overview_list, i) == IF i >= 0 THEN i + 1 ELSE Len(overview_list) + i + 1

\* The four counters after one iteration (any status that is not imported,
\* duplicate or skipped lands in failed).
tally(acc, i, it) ==
    [table |-> it.table,
     imported |-> acc.imported + (IF it.status = "imported" THEN 1 ELSE 0),
     duplicates |-> acc.duplicates + (IF it.status = "duplicate" THEN 1 ELSE 0),
     skipped |-> acc.skipped + (IF it.status = "skipped" THEN 1 ELSE 0),
     failed |-> acc.failed
                + (IF it.status \notin {"imported", "duplicate", "skipped"}
                   THEN 1 ELSE 0),
     trace |-> Append(acc.trace,
                      [index |-> i, status |-> it.status,
                       fetches |-> it.fetches, sent |-> it.sent])]

RECURSIVE import_loop(_, _, _, _, _)
import_loop(overview_list, i, end_index, env, acc) ==
    IF i >= end_index THEN acc
    ELSE import_loop(overview_list, i + 1, end_index, env,
            tally(acc, i,
                  process_item(overview_list[PyIndex(overview_list, i)],
                               acc.table, env[PyIndex(overview_list, i)])))

ImportResult(success, total, end_index, acc) ==
    [success |-> success, total |-> total, end_index |-> end_index,
     imported |-> acc.imported, duplicates |-> acc.duplicates,
     skipped |-> acc.skipped, failed |-> acc.failed,
     table |-> acc.table, trace |-> acc.trace]

import_with_resume(ov, combo_key, start_index, max_questions, tbl, oe, env) ==
    LET overview_list == fetch_overview(ov, combo_key, oe)
        total_questions == Len(overview_list)
        zero == [table |-> tbl, imported |-> 0, duplicates |-> 0, skipped |-> 0,
                 failed |-> 0, trace |-> <<>>]
    IN  IF overview_list = <<>> THEN ImportResult(FALSE, 0, 0, zero)
        ELSE IF start_index >= total_questions
            THEN ImportResult(FALSE, total_questions, 0, zero)
        ELSE
            LET end_index == window_end(start_index, max_questions, total_questions)
            IN  ImportResult(TRUE, total_questions, end_index,
                    import_loop(overview_list, start_index, end_index, env, zero))

-----------------------------------------------------------------------------
(* SATImportProgressManager: the progress store *)

DefaultProgress ==
    [total_questions |-> 0, processed_questions |-> 0, next_start_index |-> 0,
     imported |-> 0, duplicates |-> 0, skipped |-> 0, failed |-> 0,
     completed |-> FALSE]

\* get_combo_progress that forgets the stored record.
get_combo_progress_forgetful(pd, combo_key) == DefaultProgress

\* self.progress_data.get(combo_key, default)
get_combo_progress(pd, combo_key) ==
    IF combo_key \in DOMAIN pd THEN pd[combo_key] ELSE DefaultProgress

\* progress.get(name, 0) on the record being updated
StoredCounter(pd, combo_key, name) ==
    IF combo_key \in DOMAIN pd THEN pd[combo_key][name] ELSE 0

\* update_combo_progress with the counters overwritten instead of added to.
update_combo_progress_overwrite(pd, combo_key, total_questions, next_start_index, imported, duplicates, skipped, failed) ==
    [k \in DOMAIN pd \cup {combo_key} |->
        IF k = combo_key
            THEN [total_questions |-> total_questions,
                  processed_questions |-> next_start_index,
                  next_start_index |-> next_start_index,
                  imported |-> imported, duplicates |-> duplicates,
                  skipped |-> skipped, failed |-> failed,
                  completed |-> next_start_index >= total_questions]
        ELSE pd[k]]

\* update_combo_progress with completed set only when the index equals the total.
update_combo_progress_exact(pd, combo_key, total_questions, next_start_index, imported, duplicates, skipped, failed) ==
    [k \in DOMAIN pd \cup {combo_key} |->
        IF k = combo_key
            THEN [total_questions |-> total_questions,
                  processed_questions |-> next_start_index,
                  next_start_index |-> next_start_index,
                  imported |-> StoredCounter(pd, combo_key, "imported") + imported,
                  duplicates |-> StoredCounter(pd, combo_key, "duplicates") + duplicates,
                  skipped |-> StoredCounter(pd, combo_key, "skipped") + skipped,
                  failed |-> StoredCounter(pd, combo_key, "failed") + failed,
                  completed |-> next_start_index = total_questions]
        ELSE pd[k]]

update_combo_progress(pd, combo_key, total_questions, next_start_index, imported, duplicates, skipped, failed) ==
    LET progress ==
            [total_questions |-> total_questions,
             processed_questions |-> next_start_index,
             next_start_index |-> next_start_index,
             imported |-> StoredCounter(pd, combo_key, "imported") + imported,
             duplicates |-> StoredCounter(pd, combo_key, "duplicates") + duplicates,
             skipped |-> StoredCounter(pd, combo_key, "skipped") + skipped,
             failed |-> StoredCounter(pd, combo_key, "failed") + failed,
             completed |-> next_start_index >= total_questions]
    IN  [k \in DOMAIN pd \cup {combo_key} |->
            IF k = combo_key THEN progress ELSE pd[k]]

\* json.dump(self.progress_data, f): the file content after save_progress
save_progress(pd) == pd

\* json.load(f) at start-up
load_progress(file) == file

-----------------------------------------------------------------------------
(* SATImportProgressManager: the menu operations *)

\* What the user types at "Enter start index" and "Enter max questions".
StartChoices == {0, 1}
MaxChoices == {NoMax, <<1>>}
OverviewEnvs == {"ok", "fail"}

\* The faults of one pass over a list: one entry per overview position.
Envs(overview_list) == [1..Len(overview_list) -> ItemEnvs]

\* For the progress store a failed item is a failed item whatever made it
\* fail, and a failed existence check is made up for by the upsert: the menu
\* operations draw the per-item faults from the detail fetch alone.
MenuEnvs(overview_list) == [1..Len(overview_list) -> {"ok", "fetch_fail"}]

NoOp == [op |-> "none", phase |-> "none"]

\* The part shared by import_specific_menu and import_next_incomplete:
\* run the import and, on success, re-fetch the overview for the total and
\* update (and save) the progress record.
PerformImport(combo_key, choice, start_index, max_questions, oe, oe2, env) ==
    \E result \in {import_with_resume(overview_data, combo_key, start_index,
                                     max_questions, table, oe, env)} :
    LET total_questions == Len(fetch_overview(overview_data, combo_key, oe2))
    IN  /\ table' = result.table
        /\ IF result.success
              THEN /\ progress_data' =
                        update_combo_progress(progress_data, combo_key,
                            total_questions, result.end_index, result.imported,
                            result.duplicates, result.skipped, result.failed)
                   /\ progress_file' = save_progress(progress_data')
              ELSE UNCHANGED <<progress_data, progress_file>>
        /\ last' = [op |-> "import", combo_key |-> combo_key,
                    start_index |-> start_index,
                    fetched |-> Len(fetch_overview(overview_data, combo_key, oe)),
                    success |-> result.success, end_index |-> result.end_index,
                    imported |-> result.imported,
                    duplicates |-> result.duplicates,
                    skipped |-> result.skipped, failed |-> result.failed,
                    total_questions |-> IF result.success THEN total_questions
                                        ELSE 0]

MenuFrame ==
    UNCHANGED <<overview_data, call, runs, ref_table, ref_progress, final, ui, pure>>

\* The import under every behaviour of the vendor API.
ImportUnderFaults(combo_key, choice, start_index, max_questions) ==
    \/ PerformImport(combo_key, choice, start_index, max_questions,
                     "fail", "ok", <<>>)
    \/ \E oe2 \in OverviewEnvs, env \in MenuEnvs(overview_data[combo_key]) :
           PerformImport(combo_key, choice, start_index, max_questions,
                         "ok", oe2, env)

\* import_specific_menu, option 1: resume from the stored next position
ImportResume ==
    /\ calls < MaxCalls
    /\ \E combo_key \in Combos :
          ImportUnderFaults(combo_key, 1,
              get_combo_progress(progress_data, combo_key).next_start_index,
              NoMax)
    /\ calls' = calls + 1
    /\ MenuFrame

\* import_specific_menu, option 2: custom start position and optional maximum
ImportCustom ==
    /\ calls < MaxCalls
    /\ \E combo_key \in Combos :
       \E start_index \in StartChoices, max_questions \in MaxChoices :
          ImportUnderFaults(combo_key, 2, start_index, max_questions)
    /\ calls' = calls + 1
    /\ MenuFrame

\* import_specific_menu, option 3: restart from the beginning
ImportRestart ==
    /\ calls < MaxCalls
    /\ \E combo_key \in Combos :
          ImportUnderFaults(combo_key, 3, 0, NoMax)
    /\ calls' = calls + 1
    /\ MenuFrame

Incomplete == {k \in 1..Len(ComboOrder) :
                 ~get_combo_progress(progress_data, ComboOrder[k]).completed}

\* import_next_incomplete: the first combination not marked completed
ImportNextIncomplete ==
    /\ calls < MaxCalls
    /\ Incomplete # {}
    /\ LET k == CHOOSE m \in Incomplete : \A n \in Incomplete : m <= n
           combo_key == ComboOrder[k]
       IN  ImportUnderFaults(combo_key, 0,
               get_combo_progress(progress_data, combo_key).next_start_index,
               NoMax)
    /\ calls' = calls + 1
    /\ MenuFrame

\* reset_combination_progress ("Reset progress for combination"); combo_key
\* is the combination the user means to reset.
ResetCombinationProgress ==
    /\ calls < MaxCalls
    /\ \E combo_key \in Combos :
          last' = [op |-> "reset", combo_key |-> combo_key]
    /\ calls' = calls + 1
    /\ UNCHANGED <<table, progress_data, progress_file>>
    /\ MenuFrame

-----------------------------------------------------------------------------
(* The resumable UI *)

\* Every combination is served the same overview list.
OverviewData == {[k \in Combos |-> l] : l \in MenuOverviews}

Init ==
    /\ overview_data \in OverviewData
    /\ table = {}
    /\ progress_file = <<>>
    /\ progress_data = load_progress(progress_file)
    /\ calls = 0
    /\ last = NoOp
    /\ call = NoOp
    /\ runs = NoOp
    /\ ref_table = {}
    /\ ref_progress = <<>>
    /\ final = NoOp
    /\ ui = NoOp
    /\ pure = NoOp

Next ==
    \/ ImportResume
    \/ ImportCustom
    \/ ImportRestart
    \/ ImportNextIncomplete
    \/ ResetCombinationProgress

Spec == Init /\ [][Next]_vars

-----------------------------------------------------------------------------
(* One call of import_with_resume, on every list, table and argument *)

\* The rows earlier imports of the items can have left in the table.
PossibleRows ==
    {question_record(it, fetch_question_details(it.external_id, it.ibn, "ok")) :
        it \in {x \in Items : /\ (Truthy(x.external_id) \/ Truthy(x.ibn))
                               /\ x.skill_cd \in DOMAIN SAT_SKILL_MAPPING}}

\* start_index and max_questions as any caller may pass them
CallStarts == 0..MaxLen
CallMaxes == {NoMax} \cup {<<n>> : n \in -1..MaxLen}

InitCall ==
    /\ overview_data \in {[k \in Combos |-> l] : l \in OverviewLists}
    /\ table \in SUBSET PossibleRows
    /\ call \in {[op |-> "call", phase |-> "args", combo_key |-> ComboOrder[1],
                   start_index |-> s, max_questions |-> m] :
                     s \in CallStarts, m \in CallMaxes}
    /\ progress_file = <<>>
    /\ progress_data = <<>>
    /\ calls = 0
    /\ last = NoOp
    /\ runs = NoOp
    /\ ref_table = {}
    /\ ref_progress = <<>>
    /\ final = NoOp
    /\ ui = NoOp
    /\ pure = NoOp

CallImport ==
    /\ call.phase = "args"
    /\ \E oe \in OverviewEnvs, env \in Envs(overview_data[call.combo_key]) :
       \E result \in {import_with_resume(overview_data, call.combo_key,
                            call.start_index, call.max_questions, table, oe, env)} :
          /\ table' = result.table
          /\ call' = [op |-> "call", phase |-> "returned", combo_key |-> call.combo_key,
                      start_index |-> call.start_index,
                      max_questions |-> call.max_questions,
                      before |-> table, oe |-> oe, env |-> env,
                      success |-> result.success, total |-> result.total,
                      end_index |-> result.end_index,
                      imported |-> result.imported,
                      duplicates |-> result.duplicates,
                      skipped |-> result.skipped, failed |-> result.failed,
                      trace |-> result.trace]
    /\ UNCHANGED <<overview_data, progress_data, progress_file, calls, last,
                   runs, ref_table, ref_progress, final, ui, pure>>

SpecCall == InitCall /\ [][CallImport]_vars

Returned == call.phase = "returned"

CallList == overview_data[call.combo_key]

HasId(overview) == Truthy(overview.external_id) \/ Truthy(overview.ibn)

\* The overview item and the faults of the k-th iteration of the returned call.
IterItem(k) == CallList[PyIndex(CallList, call.start_index + k - 1)]
IterEnv(k) == call.env[PyIndex(CallList, call.start_index + k - 1)]

FetchFailedAt(k) == HasId(IterItem(k)) /\ IterEnv(k) = "fetch_fail"

-----------------------------------------------------------------------------
(* populate_sat_questions_final: SATQuestionImporter *)

ASMT_EVENT_IDS == <<99, 100, 102>>

\* The one-shot importer reads external_id and skill_cd of an overview item.
FinalItems == {it \in Items : it.ibn = None}

FinalOverviews == SeqsUpTo(FinalItems, MaxLen)

\* What the environment does to the calls made for one item: the detail
\* request raises RequestException, or answers with an empty body, or the
\* upsert raises.
FinalItemEnvs == {"ok", "fetch_fail", "empty_detail", "upsert_err"}

FinalEnvs(overview_questions) == [1..Len(overview_questions) -> FinalItemEnvs]

\* fetch_question_overview: the list, and whether timeout_occurred was set
final_fetch_question_overview(overview_questions, oe) ==
    IF oe = "fail" THEN [questions |-> <<>>, timeout |-> TRUE]
    ELSE [questions |-> overview_questions, timeout |-> FALSE]

\* fetch_question_details: the details, and whether timeout_occurred was set
final_fetch_question_details(external_id, e) ==
    IF e = "fetch_fail" THEN [details |-> NoDetail, timeout |-> TRUE]
    ELSE IF e = "empty_detail" THEN [details |-> NoDetail, timeout |-> FALSE]
    ELSE [details |-> DetailMcq, timeout |-> FALSE]

\* The domain and subject add_question derives from the skill code.
final_domain_subject(sat_skill_code) ==
    IF startswith(sat_skill_code, <<"H", ".">>) THEN <<"algebra", "math">>
    ELSE IF startswith(sat_skill_code, <<"P", ".">>) THEN <<"advanced-math", "math">>
    ELSE IF startswith(sat_skill_code, <<"Q", ".">>)
        THEN <<"problem-solving-data-analysis", "math">>
    ELSE IF startswith(sat_skill_code, <<"S", ".">>)
        THEN <<"geometry-trigonometry", "math">>
    ELSE IF sat_skill_code \in {<<"C", "I", "D">>, <<"I", "N", "F">>, <<"C", "O", "E">>}
        THEN <<"information-ideas", "english">>
    ELSE IF sat_skill_code \in {<<"W", "I", "C">>, <<"T", "S", "P">>, <<"C", "T", "C">>}
        THEN <<"craft-structure", "english">>
    ELSE IF sat_skill_code \in {<<"S", "Y", "N">>, <<"T", "R", "A">>}
        THEN <<"expression-ideas", "english">>
    ELSE IF sat_skill_code \in {<<"B", "O", "U">>, <<"F", "S", "S">>}
        THEN <<"standard-english-conventions", "english">>
    ELSE <<None, None>>

\* The row add_question upserts (sat_ibn is a column it leaves NULL).
final_question_record(overview, question) ==
    [origin |-> "sat_official",
     sat_external_id |-> overview.external_id,
     sat_ibn |-> None,
     question_type |-> question.type,
     skill_id |-> skill_get(overview.skill_cd),
     answer_options |->
        IF question.type = "mcq"
            THEN OptionList(SelectSeq(
                    [k \in 1..Len(question.answerOptions) |->
                        [id |-> question.answerOptions[k].id,
                         is_correct |-> FALSE,
                         has_id |-> question.answerOptions[k].has_id]],
                    LAMBDA o : o.has_id))
        ELSE NoOptions,
     correct_answers |->
        IF question.keys_is_str THEN <<question.keys[1]>> ELSE question.keys,
     domain_id |-> final_domain_subject(overview.skill_cd)[1],
     subject_id |-> final_domain_subject(overview.skill_cd)[2]]

\* SATQuestionImporter.add_question: the counter it increments and the table
final_add_question(overview, question, tbl, e) ==
    IF ~Truthy(overview.external_id) THEN AddResult("skipped", tbl, {})
    ELSE IF overview.skill_cd \notin DOMAIN SAT_SKILL_MAPPING
        THEN AddResult("skipped", tbl, {})
    ELSE IF ~Truthy(final_domain_subject(overview.skill_cd)[1])
            \/ ~Truthy(final_domain_subject(overview.skill_cd)[2])
        THEN AddResult("skipped", tbl, {})
    ELSE IF question.shape # "dict" \/ question.type = Absent     \* question["type"] raises
        THEN AddResult("failed", tbl, {})
    ELSE IF question.type \notin {"mcq", "spr"}
        THEN AddResult("skipped", tbl, {})
    ELSE upsert_status(upsert(tbl, final_question_record(overview, question),
                              "sat_external_id", e),
                       tbl,
                       Request(final_question_record(overview, question),
                               "sat_external_id"))

\* The importer's fields after one counter was incremented.
final_count(acc, status, tbl) ==
    [acc EXCEPT
        !.table = tbl,
        !.imported_count = @ + (IF status = "imported" THEN 1 ELSE 0),
        !.duplicate_count = @ + (IF status = "duplicate" THEN 1 ELSE 0),
        !.skipped_count = @ + (IF status = "skipped" THEN 1 ELSE 0),
        !.failed_count = @ + (IF status = "failed" THEN 1 ELSE 0)]

\* add_question called for an item, and the call recorded
final_pass(acc, added) ==
    [final_count(acc, added.status, added.table) EXCEPT !.passed = @ + 1]

\* The loop over the overview items of one event.
RECURSIVE final_item_loop(_, _, _, _)
final_item_loop(overview_questions, i, env, acc) ==
    IF i > Len(overview_questions) THEN acc
    ELSE IF ~Truthy(overview_questions[i].external_id)
        THEN final_item_loop(overview_questions, i + 1, env,
                             final_count(acc, "skipped", acc.table))
    ELSE IF acc.timeout_occurred
            \/ final_fetch_question_details(overview_questions[i].external_id,
                                            env[i]).timeout
        THEN [acc EXCEPT !.timeout_occurred = TRUE]                   \* break
    ELSE IF final_fetch_question_details(overview_questions[i].external_id,
                                         env[i]).details = NoDetail
        THEN final_item_loop(overview_questions, i + 1, env,
                             final_count(acc, "failed", acc.table))
    ELSE final_item_loop(overview_questions, i + 1, env,
            final_pass(acc,
                final_add_question(overview_questions[i],
                    final_fetch_question_details(overview_questions[i].external_id,
                                                 env[i]).details,
                    acc.table, env[i])))

\* One iteration of "for event_id in ASMT_EVENT_IDS".
process_event(event_id, overview_questions, oe, env, acc) ==
    IF event_id = 99 /\ acc.timeout_occurred THEN acc
    ELSE IF final_fetch_question_overview(overview_questions, oe).timeout
        THEN [acc EXCEPT !.timeout_occurred = TRUE]
    ELSE IF final_fetch_question_overview(overview_questions, oe).questions = <<>>
        THEN acc
    ELSE final_item_loop(
            final_fetch_question_overview(overview_questions, oe).questions,
            1, env, acc)

FinalCounted(f) ==
    f.imported_count + f.duplicate_count + f.skipped_count + f.failed_count

NoEvent == [event_id |-> 0, fetched |-> 0, before |-> 0, passed |-> 0,
            clean |-> FALSE, timeouts |-> 0, flag_before |-> FALSE, with_id |-> 0]

\* process_domain_questions, entry: the timeout flag is reset
StartDomain ==
    /\ final.event > Len(ASMT_EVENT_IDS)
    /\ final.domain < MaxDomains
    /\ final' = [final EXCEPT !.domain = @ + 1, !.event = 1,
                              !.timeout_occurred = FALSE, !.ev = NoEvent]
    /\ UNCHANGED <<overview_data, table, progress_data, progress_file, calls,
                   last, call, runs, ref_table, ref_progress, ui, pure>>

\* process_domain_questions, one event: the vendor serves overview_questions
ProcessEvent ==
    /\ final.event <= Len(ASMT_EVENT_IDS)
    /\ \E overview_questions \in FinalOverviews, oe \in OverviewEnvs :
       \E env \in FinalEnvs(overview_questions) :
       \E acc \in {process_event(ASMT_EVENT_IDS[final.event], overview_questions,
                                 oe, env,
                                 [table |-> table,
                                  imported_count |-> final.imported_count,
                                  duplicate_count |-> final.duplicate_count,
                                  skipped_count |-> final.skipped_count,
                                  failed_count |-> final.failed_count,
                                  timeout_occurred |-> final.timeout_occurred,
                                  passed |-> 0])} :
          /\ table' = acc.table
          /\ final' = [final EXCEPT
                !.event = @ + 1,
                !.imported_count = acc.imported_count,
                !.duplicate_count = acc.duplicate_count,
                !.skipped_count = acc.skipped_count,
                !.failed_count = acc.failed_count,
                !.timeout_occurred = acc.timeout_occurred,
                !.ev = [event_id |-> ASMT_EVENT_IDS[final.event],
                        fetched |-> Len(final_fetch_question_overview(
                                            overview_questions, oe).questions),
                        before |-> FinalCounted(final),
                        passed |-> acc.passed,
                        clean |-> oe = "ok" /\ \A k \in DOMAIN env : env[k] = "ok",
                        timeouts |-> Cardinality({k \in DOMAIN env :
                            /\ oe = "ok"
                            /\ Truthy(overview_questions[k].external_id)
                            /\ env[k] = "fetch_fail"}),
                        flag_before |-> final.timeout_occurred,
                        with_id |-> Cardinality({k \in DOMAIN env :
                            Truthy(overview_questions[k].external_id)})]]
    /\ UNCHANGED <<overview_data, progress_data, progress_file, calls,
                   last, call, runs, ref_table, ref_progress, ui, pure>>

InitFinal ==
    /\ final = [op |-> "final", phase |-> "run", domain |-> 0,
                event |-> Len(ASMT_EVENT_IDS) + 1,
                imported_count |-> 0, duplicate_count |-> 0,
                skipped_count |-> 0, failed_count |-> 0,
                timeout_occurred |-> FALSE, ev |-> NoEvent]
    /\ table = {}
    /\ overview_data = <<>>
    /\ progress_file = <<>>
    /\ progress_data = <<>>
    /\ calls = 0
    /\ last = NoOp
    /\ call = NoOp
    /\ runs = NoOp
    /\ ref_table = {}
    /\ ref_progress = <<>>
    /\ ui = NoOp
    /\ pure = NoOp

NextFinal == StartDomain \/ ProcessEvent

SpecFinal == InitFinal /\ [][NextFinal]_vars

-----------------------------------------------------------------------------
(* The same window of one combination imported twice from index 0 *)

\* The vendor may list one external id twice, with different content.
RerunItems == Items \cup {OvItem("Q1", None, <<"H", ".", "B", ".">>)}

RerunLists == SeqsUpTo(RerunItems, MaxLen)

RunSummary(result) ==
    [success |-> result.success, end_index |-> result.end_index,
     imported |-> result.imported, duplicates |-> result.duplicates,
     skipped |-> result.skipped, failed |-> result.failed,
     status |-> [k \in 1..Len(result.trace) |-> result.trace[k].status]]

InitRerun ==
    /\ overview_data \in {[k \in Combos |-> l] : l \in RerunLists}
    /\ table = {}
    /\ runs \in {[op |-> "rerun", phase |-> "start", combo_key |-> ComboOrder[1],
                   max_questions |-> m] : m \in MaxChoices}
    /\ progress_file = <<>>
    /\ progress_data = <<>>
    /\ calls = 0
    /\ last = NoOp
    /\ call = NoOp
    /\ ref_table = {}
    /\ ref_progress = <<>>
    /\ final = NoOp
    /\ ui = NoOp
    /\ pure = NoOp

RerunFrame ==
    UNCHANGED <<overview_data, progress_data, progress_file, calls, last, call,
                ref_table, ref_progress, final, ui, pure>>

\* import_with_resume from index 0, first time
FirstRun ==
    /\ runs.op = "rerun" /\ runs.phase = "start"
    /\ \E oe \in OverviewEnvs, env \in Envs(overview_data[runs.combo_key]) :
       \E result \in {import_with_resume(overview_data, runs.combo_key, 0,
                                         runs.max_questions, table, oe, env)} :
          /\ table' = result.table
          /\ runs' = [op |-> "rerun", phase |-> "first",
                      combo_key |-> runs.combo_key,
                      max_questions |-> runs.max_questions,
                      first |-> RunSummary(result)]
    /\ RerunFrame

\* import_with_resume from index 0 again, with the same maximum
SecondRun ==
    /\ runs.op = "rerun" /\ runs.phase = "first"
    /\ \E oe \in OverviewEnvs, env \in Envs(overview_data[runs.combo_key]) :
       \E result \in {import_with_resume(overview_data, runs.combo_key, 0,
                                         runs.max_questions, table, oe, env)} :
          /\ table' = result.table
          /\ runs' = [op |-> "rerun", phase |-> "second",
                      combo_key |-> runs.combo_key,
                      max_questions |-> runs.max_questions,
                      first |-> runs.first,
                      second |-> RunSummary(result)]
    /\ RerunFrame

NextRerun == FirstRun \/ SecondRun

SpecRerun == InitRerun /\ [][NextRerun]_vars

-----------------------------------------------------------------------------
(* One combination processed in two invocations, next to the same range    *)
(* processed in one: both see the same list and the same per-item faults.  *)

ResumeFrame == UNCHANGED <<overview_data, calls, call, final, ui, pure>>

InitResume ==
    /\ overview_data \in {[k \in Combos |-> l] : l \in OverviewLists}
    /\ \E s \in CallStarts, m \in CallMaxes \ {NoMax} :
       \E env \in Envs(overview_data[ComboOrder[1]]) :
          runs = [op |-> "resume", phase |-> "start", combo_key |-> ComboOrder[1],
                  start_index |-> s, max_questions |-> m, env |-> env,
                  first_success |-> FALSE, next1 |-> 0, ref_start |-> s,
                  second_done |-> FALSE, second_success |-> FALSE,
                  ref_done |-> FALSE]
    /\ table = {}
    /\ ref_table = {}
    /\ progress_file = <<>>
    /\ progress_data = load_progress(progress_file)
    /\ ref_progress = progress_data
    /\ calls = 0
    /\ last = NoOp
    /\ call = NoOp
    /\ final = NoOp
    /\ ui = NoOp
    /\ pure = NoOp

\* import_specific_menu, option 2, with a maximum: the first invocation
FirstInvocation ==
    /\ runs.op = "resume" /\ runs.phase = "start"
    /\ \E oe2 \in OverviewEnvs :
          PerformImport(runs.combo_key, 2, runs.start_index, runs.max_questions,
                        "ok", oe2, runs.env)
    /\ runs' = [runs EXCEPT !.phase = "first",
                            !.first_success = last'.success,
                            !.next1 = last'.end_index,
                            !.ref_start = IF last'.success
                                          THEN Min(runs.start_index, last'.end_index)
                                          ELSE runs.start_index]
    /\ UNCHANGED <<ref_table, ref_progress>>
    /\ ResumeFrame

\* import_specific_menu, option 1: the second invocation resumes from the
\* stored next_start_index
SecondInvocation ==
    /\ runs.op = "resume" /\ runs.phase = "first" /\ ~runs.second_done
    /\ \E oe2 \in OverviewEnvs :
          PerformImport(runs.combo_key, 1,
              get_combo_progress(progress_data, runs.combo_key).next_start_index,
              NoMax, "ok", oe2, runs.env)
    /\ runs' = [runs EXCEPT !.second_done = TRUE,
                            !.second_success = last'.success]
    /\ UNCHANGED <<ref_table, ref_progress>>
    /\ ResumeFrame

\* The uninterrupted invocation over the range the two invocations cover.
SingleInvocation ==
    /\ runs.op = "resume" /\ runs.phase = "first" /\ ~runs.ref_done
    /\ \E oe2 \in OverviewEnvs :
       \E result \in {import_with_resume(overview_data, runs.combo_key,
                            runs.ref_start, NoMax, ref_table, "ok", runs.env)} :
          /\ ref_table' = result.table
          /\ ref_progress' =
                IF result.success
                    THEN update_combo_progress(ref_progress, runs.combo_key,
                            Len(fetch_overview(overview_data, runs.combo_key, oe2)),
                            result.end_index, result.imported, result.duplicates,
                            result.skipped, result.failed)
                ELSE ref_progress
    /\ runs' = [runs EXCEPT !.ref_done = TRUE]
    /\ UNCHANGED <<table, progress_data, progress_file, last>>
    /\ ResumeFrame

NextResume == FirstInvocation \/ SecondInvocation \/ SingleInvocation

SpecResume == InitResume /\ [][NextResume]_vars

-----------------------------------------------------------------------------
(* sat_import_ui.py: SATImportUI and its completion file *)

\* (test, domain, event) selections the window offers
UiCombos ==
    {<<1, "INI", 99>>, <<1, "INI", 100>>, <<1, "CAS", 99>>, <<2, "INI", 99>>,
     <<2, "CAS", 102>>}

\* completed_tasks is {test_id: {domain: [event_id]}}: a set of entries whose
\* test_id key is the int the window holds or the str a JSON file gives back.
UiEntry(kind, c) == [test_id |-> <<kind, c[1]>>, domain |-> c[2], event_id |-> c[3]]

\* f"T{test_id}-{domain}-{event}" of every entry
completed_items(completed_tasks) ==
    {<<e.test_id[2], e.domain, e.event_id>> : e \in completed_tasks}

\* json.dump(self.completed_tasks, f): every key is written as a string; an
\* int key is written after the str key of the same number.
json_dump(completed_tasks) ==
    {[test |-> e.test_id[2], domain |-> e.domain, event_id |-> e.event_id,
      late |-> e.test_id[1] = "int"] : e \in completed_tasks}

\* json.load(f): of two equal keys the later one is kept
json_load(text) ==
    {UiEntry("str", <<e.test, e.domain, e.event_id>>) :
        e \in {x \in text : x.late \/ ~\E y \in text : y.test = x.test /\ y.late}}

NoUiFile == [exists |-> FALSE, text |-> {}]

\* update_completion_status: the file it leaves
update_completion_status(completed_tasks) ==
    [exists |-> TRUE, text |-> json_dump(completed_tasks)]

\* load_completion_status: completed_tasks and the file it leaves
load_completion_status(file, completed_tasks) ==
    IF file.exists
        THEN [completed_tasks |-> json_load(file.text),
              file |-> update_completion_status(json_load(file.text))]
    ELSE [completed_tasks |-> completed_tasks, file |-> file]

\* What a session finds on disk: the set the previous session saved.
SavedSet(file) == IF file.exists THEN completed_items(json_load(file.text)) ELSE {}

\* main: SATImportUI(root), which sets completed_tasks = {} and calls
\* update_completion_status, then load_completion_status
UiMain ==
    /\ ui.phase = "off"
    /\ ui.sessions < MaxCalls
    /\ \E loaded \in {load_completion_status(update_completion_status({}), {})} :
          ui' = [ui EXCEPT !.phase = "running",
                           !.sessions = @ + 1,
                           !.saved_prev = SavedSet(ui.file),
                           !.completed_tasks = loaded.completed_tasks,
                           !.file = loaded.file,
                           !.at_startup = completed_items(loaded.completed_tasks)]
    /\ UNCHANGED <<overview_data, table, progress_data, progress_file, calls,
                   last, call, runs, ref_table, ref_progress, final, pure>>

\* run_import: the subprocess ends with return_code
UiRunImport ==
    /\ ui.phase = "running"
    /\ ui.imports < MaxCalls
    /\ \E c \in UiCombos, return_code \in {0, 1} :
          ui' = IF return_code = 0
                THEN [ui EXCEPT
                        !.imports = @ + 1,
                        !.completed_tasks = @ \cup {UiEntry("int", c)},
                        !.file = update_completion_status(
                                    ui.completed_tasks \cup {UiEntry("int", c)})]
                ELSE [ui EXCEPT !.imports = @ + 1]
    /\ UNCHANGED <<overview_data, table, progress_data, progress_file, calls,
                   last, call, runs, ref_table, ref_progress, final, pure>>

\* The window is closed and the process ends.
UiQuit ==
    /\ ui.phase = "running"
    /\ ui' = [ui EXCEPT !.phase = "off", !.completed_tasks = {}]
    /\ UNCHANGED <<overview_data, table, progress_data, progress_file, calls,
                   last, call, runs, ref_table, ref_progress, final, pure>>

InitUi ==
    /\ ui = [op |-> "ui", phase |-> "off", sessions |-> 0, imports |-> 0,
             completed_tasks |-> {}, file |-> NoUiFile,
             saved_prev |-> {}, at_startup |-> {}]
    /\ overview_data = <<>>
    /\ table = {}
    /\ progress_file = <<>>
    /\ progress_data = <<>>
    /\ calls = 0
    /\ last = NoOp
    /\ call = NoOp
    /\ runs = NoOp
    /\ ref_table = {}
    /\ ref_progress = <<>>
    /\ final = NoOp
    /\ pure = NoOp

NextUi == UiMain \/ UiRunImport \/ UiQuit

SpecUi == InitUi /\ [][NextUi]_vars

-----------------------------------------------------------------------------
(* add_question on every item, detail payload, table and fault *)

\* new-format item; the same id under an unknown code and under a code that
\* only has a known prefix; item without skill code; legacy item; items with
\* both identifiers; item without identifier
AddItems ==
    { OvItem("Q1", None, <<"H", ".", "A", ".">>),
      OvItem("Q1", None, <<"Z", "Z", "Z">>),
      OvItem("Q2", None, <<"H", ".", "Z", ".">>),
      OvItem("Q2", None, <<>>),
      OvItem(None, "I1", <<"C", "I", "D">>),
      OvItem("Q1", "I1", <<"H", ".", "A", ".">>),
      OvItem("Q3", "I1", <<"H", ".", "A", ".">>),
      OvItem(None, None, <<"H", ".", "A", ".">>) }

NewDetails ==
    {NewDetail(t, ao, <<"A">>, ks) :
        t \in {"mcq", "spr", "other", Absent},
        ao \in {<<>>, <<Option("1", TRUE), Option("2", TRUE)>>,
                <<Option("1", FALSE)>>},
        ks \in BOOLEAN}

LegacyDetails ==
    {LegacyDetail("list", st, ch, cc) :
        st \in {"SPR", "Multiple Choice", Absent},
        ch \in {<<>>, <<<<"a">>, <<"b">>>>},
        cc \in {<<>>, <<"a">>, <<"B">>, <<"c">>}}
    \cup {LegacyDetail("dict", Absent, <<>>, <<>>)}

\* The truthy payloads the detail endpoint of an item may answer with.
DetailsFor(overview) ==
    IF Truthy(overview.external_id)
        THEN NewDetails \cup {DetailLegacy}
    ELSE LegacyDetails \cup {DetailMcq}

\* The rows earlier imports can have left in the table.
AddRows ==
    {question_record(OvItem("Q1", None, <<"H", ".", "A", ".">>), DetailMcq),
     question_record(OvItem(None, "I1", <<"C", "I", "D">>), DetailLegacy)}

AddEnvs == {"ok", "check_err", "upsert_err"}

InitAdd ==
    /\ table \in SUBSET AddRows
    /\ \E overview \in AddItems, e \in AddEnvs :
       \E question \in DetailsFor(overview) :
          call = [op |-> "add", phase |-> "args", overview |-> overview,
                  question |-> question, env |-> e]
    /\ overview_data = <<>>
    /\ progress_file = <<>>
    /\ progress_data = <<>>
    /\ calls = 0
    /\ last = NoOp
    /\ runs = NoOp
    /\ ref_table = {}
    /\ ref_progress = <<>>
    /\ final = NoOp
    /\ ui = NoOp
    /\ pure = NoOp

AddFrame ==
    UNCHANGED <<overview_data, progress_data, progress_file, calls, last, runs,
                ref_table, ref_progress, final, ui, pure>>

Returning(importer, result) ==
    [op |-> "add", phase |-> "returned", importer |-> importer,
     overview |-> call.overview, question |-> call.question, env |-> call.env,
     before |-> table, status |-> result.status, sent |-> result.sent]

\* ResumableSATImporter: the loop body after the detail fetch
AddQuestion ==
    /\ call.op = "add" /\ call.phase = "args"
    /\ \E result \in {add_question(call.overview, call.question, table, call.env)} :
       \E counted \in {tally([table |-> table, imported |-> 0, duplicates |-> 0,
                              skipped |-> 0, failed |-> 0, trace |-> <<>>],
                             0, ItemResult(result, 1))} :
          /\ table' = result.table
          /\ call' = Returning("resumable", result) @@
                     [imported |-> counted.imported,
                      duplicates |-> counted.duplicates,
                      skipped |-> counted.skipped, failed |-> counted.failed]
    /\ AddFrame

\* SATQuestionImporter: add_question of the one-shot importer
FinalAddQuestion ==
    /\ call.op = "add" /\ call.phase = "args"
    /\ \E result \in {final_add_question(call.overview, call.question, table,
                                        call.env)} :
       \E counted \in {final_count([table |-> table, imported_count |-> 0,
                                    duplicate_count |-> 0, skipped_count |-> 0,
                                    failed_count |-> 0],
                                   result.status, result.table)} :
          /\ table' = result.table
          /\ call' = Returning("final", result) @@
                     [imported |-> counted.imported_count,
                      duplicates |-> counted.duplicate_count,
                      skipped |-> counted.skipped_count,
                      failed |-> counted.failed_count]
    /\ AddFrame

NextAdd == AddQuestion \/ FinalAddQuestion

SpecAdd == InitAdd /\ [][NextAdd]_vars

-----------------------------------------------------------------------------
(* Claims about one call of import_with_resume (SpecCall) *)

\* C1: every call of import_with_resume that returns success has
\* imported + duplicates + skipped + failed = end_index - start_index.
C1_CountersCoverWindow ==
    (Returned /\ call.success) =>
        call.imported + call.duplicates + call.skipped + call.failed
            = call.end_index - call.start_index

\* C3: an item with an identifier whose detail fetch fails is counted as
\* failed, once; nothing is sent to the sink for it; its detail is requested
\* once; and the loop visits every index of the window, so the call's failed
\* counter is the number of iterations that ended as failed.
C3_FetchFailureCounted ==
    (Returned /\ call.success) =>
        /\ Len(call.trace) = IF call.end_index >= call.start_index
                              THEN call.end_index - call.start_index ELSE 0
        /\ \A k \in 1..Len(call.trace) :
              /\ call.trace[k].index = call.start_index + k - 1
              /\ FetchFailedAt(k) =>
                    /\ call.trace[k].status = "failed"
                    /\ call.trace[k].fetches = 1
                    /\ call.trace[k].sent = {}
        /\ call.failed =
              Cardinality({k \in 1..Len(call.trace) :
                             call.trace[k].status = "failed"})
        /\ call.failed >=
              Cardinality({k \in 1..Len(call.trace) : FetchFailedAt(k)})
        /\ (\A k \in 1..Len(call.trace) : HasId(IterItem(k)) => FetchFailedAt(k))
              => table = call.before

\* C3 witness: a detail fetch failed for an item that is not the last of the
\* window, and the item after it was imported.
C3_Witness ==
    /\ Returned /\ call.success
    /\ \E k \in 1..Len(call.trace) - 1 :
          /\ FetchFailedAt(k)
          /\ call.trace[k + 1].status = "imported"
    /\ call.failed = 1

\* C8: a call processes at most max_questions items when a maximum is passed
\* (any integer, 0 included) and at most RATE_LIMIT_THRESHOLD items otherwise,
\* and start_index <= end_index <= total_questions.
C8_WindowBounded ==
    (Returned /\ call.success) =>
        /\ call.max_questions # NoMax => Len(call.trace) <= call.max_questions[1]
        /\ call.max_questions = NoMax => Len(call.trace) <= RATE_LIMIT_THRESHOLD
        /\ call.start_index <= call.end_index
        /\ call.end_index <= call.total

-----------------------------------------------------------------------------
(* Claims about the progress store behind the menu (Spec) *)

LastImport == last.op = "import"

\* C6: every record get_combo_progress returns, stored or default, has
\* completed exactly when next_start_index >= total_questions.
C6_CompletedIffBeyondTotal ==
    \A k \in Combos :
        get_combo_progress(progress_data, k).completed
            <=> (get_combo_progress(progress_data, k).next_start_index
                    >= get_combo_progress(progress_data, k).total_questions)

\* C6 amended: every stored record has completed exactly when
\* next_start_index >= its total_questions, the total being the overview
\* length seen by the update that wrote it; the default record of a
\* combination never updated is not completed, with index and total 0.
C6_StoredCompletedIffBeyondTotal ==
    /\ \A k \in DOMAIN progress_data :
          progress_data[k].completed
              <=> (progress_data[k].next_start_index
                      >= progress_data[k].total_questions)
    /\ \A k \in Combos \ DOMAIN progress_data :
          /\ ~get_combo_progress(progress_data, k).completed
          /\ get_combo_progress(progress_data, k).next_start_index = 0
          /\ get_combo_progress(progress_data, k).total_questions = 0
    /\ (LastImport /\ last.success) =>
          progress_data[last.combo_key].total_questions = last.total_questions

\* C6 witness: a stored record that is completed because the overview fetch
\* after the import failed, next to a combination never updated.
C6_Witness ==
    /\ LastImport /\ last.success
    /\ last.total_questions = 0
    /\ progress_data[last.combo_key].completed
    /\ progress_data[last.combo_key].next_start_index > 0
    /\ Combos \ DOMAIN progress_data # {}

UnchangedPosition(k) ==
    /\ get_combo_progress(progress_data', k).next_start_index
          = get_combo_progress(progress_data, k).next_start_index
    /\ \A c \in {"imported", "duplicates", "skipped", "failed"} :
          get_combo_progress(progress_data', k)[c]
              = get_combo_progress(progress_data, k)[c]

EmptyFetchStep == last'.op = "import" /\ last'.fetched = 0 /\ calls' = calls + 1

\* C7: when the overview fetch returns an empty sequence no item is
\* processed, the record gets total_questions = 0, and its next_start_index
\* and counters stay as they were.
C7_EmptyOverviewMarksZero ==
    [][EmptyFetchStep =>
          /\ table' = table
          /\ get_combo_progress(progress_data', last'.combo_key).total_questions = 0
          /\ UnchangedPosition(last'.combo_key)]_vars

C10_ResetClearsRecord ==
    [][(last'.op = "reset" /\ calls' = calls + 1) =>
          /\ get_combo_progress(progress_data', last'.combo_key) = DefaultProgress
          /\ \A k \in DOMAIN progress_data \ {last'.combo_key} :
                /\ k \in DOMAIN progress_data'
                /\ progress_data'[k] = progress_data[k]]_vars

-----------------------------------------------------------------------------
(* Claims about the one-shot importer (SpecFinal) *)

\* C2: after every event whose overview fetch returned a non-empty list the
\* four counters together have grown by the length of that list, detail
\* fetches that time out included.
C2_EveryItemCounted ==
    final.ev.fetched > 0 =>
        FinalCounted(final) - final.ev.before = final.ev.fetched

-----------------------------------------------------------------------------
(* Claims about repeated and resumed imports (SpecRerun, SpecResume) *)

UniqueIdentity(tbl) ==
    \A r1 \in tbl, r2 \in tbl :
        \/ r1 = r2
        \/ /\ ~(Truthy(r1.sat_external_id) /\ r1.sat_external_id = r2.sat_external_id)
           /\ ~(Truthy(r1.sat_ibn) /\ r1.sat_ibn = r2.sat_ibn)

SecondRunDone == runs.op = "rerun" /\ runs.phase = "second"

\* C4: a second run over the same list from index 0 counts zero items as
\* imported, and the table holds at most one row per vendor identity.
C4_SecondRunImportsNothing ==
    /\ SecondRunDone => runs.second.imported = 0
    /\ UniqueIdentity(table)

\* C4 amended: a second run over the same list and window from index 0
\* counts as imported only items the first run counted as failed or never
\* reached because its overview fetch failed; it counts zero when the first
\* run went through with no failed item; and the table holds at most one
\* row per vendor identity.
C4_SecondRunImportsOnlyFailed ==
    /\ (SecondRunDone /\ runs.first.success /\ runs.second.success) =>
          /\ DOMAIN runs.second.status = DOMAIN runs.first.status
          /\ \A k \in DOMAIN runs.second.status :
                runs.second.status[k] = "imported"
                    => runs.first.status[k] = "failed"
          /\ runs.second.imported <= runs.first.failed
    /\ (SecondRunDone /\ runs.first.success /\ runs.first.failed = 0) =>
          runs.second.imported = 0
    /\ UniqueIdentity(table)

\* C4 witness: the first run imported every item of a two-item window and
\* the second run found them all to be duplicates.
C4_Witness ==
    /\ SecondRunDone
    /\ runs.first.success /\ runs.first.imported = 2 /\ runs.first.failed = 0
    /\ runs.second.success /\ runs.second.imported = 0
    /\ runs.second.duplicates = 2
    /\ Cardinality(table) = 2

ResumeDone ==
    /\ runs.op = "resume" /\ runs.phase = "first"
    /\ runs.first_success /\ runs.second_done /\ runs.ref_done

\* C5: with a stable overview list, two invocations, the second starting at
\* the next_start_index the first stored, leave the record with the same
\* next_start_index and the same cumulative counters as one uninterrupted
\* invocation over the same index range.
C5_ResumeEqualsSingleRun ==
    ResumeDone =>
        /\ runs.combo_key \in DOMAIN progress_data
        /\ runs.combo_key \in DOMAIN ref_progress
        /\ progress_data[runs.combo_key].next_start_index
              = ref_progress[runs.combo_key].next_start_index
        /\ \A c \in {"imported", "duplicates", "skipped", "failed"} :
              progress_data[runs.combo_key][c] = ref_progress[runs.combo_key][c]

\* C5 witness: the first invocation stopped inside the list, the second
\* resumed there and finished it, and both counted an item.
C5_Witness ==
    /\ ResumeDone
    /\ runs.max_questions = <<1>>
    /\ runs.next1 = runs.start_index + 1
    /\ runs.second_success
    /\ progress_data[runs.combo_key].next_start_index = runs.next1 + 1
    /\ progress_data[runs.combo_key].imported = 1
    /\ progress_data[runs.combo_key].failed = 1

-----------------------------------------------------------------------------
(* Claims about the desktop UI (SpecUi) *)

\* C11: after a restart the completed set available after start-up equals
\* the set the previous session saved.
C11_CompletedSurvivesRestart ==
    (ui.op = "ui" /\ ui.phase = "running") => ui.at_startup = ui.saved_prev

-----------------------------------------------------------------------------
(* Claims about add_question (SpecAdd) *)

Added == call.op = "add" /\ call.phase = "returned"

AddedBy(importer) == Added /\ call.importer = importer

IdentityFields(data) ==
    {c \in {"sat_external_id", "sat_ibn"} : Truthy(data[c])}

\* C12: every record the resumable importer sends to the sink has exactly
\* one non-null identity field, and it is the upsert's conflict column.
C12_OneIdentityIsConflictColumn ==
    AddedBy("resumable") =>
        \A r \in call.sent : IdentityFields(r.data) = {r.on_conflict}

\* C13: every persisted record has answer_options non-null exactly when its
\* question_type is mcq.
C13_OptionsIffMcq ==
    (Added /\ call.status = "imported") =>
        \A r \in call.sent :
            (~r.data.answer_options.null) <=> (r.data.question_type = "mcq")

\* The skill, domain or subject of the item cannot be resolved.
Unresolved(importer, overview) ==
    \/ ~Truthy(skill_get(overview.skill_cd))
    \/ IF importer = "final"
          THEN \E k \in 1..2 : ~Truthy(final_domain_subject(overview.skill_cd)[k])
          ELSE \E k \in 1..2 : ~Truthy(get_domain_subject_mapping(overview.skill_cd)[k])

\* C14: no record is sent to the sink unless skill_id, domain_id and
\* subject_id are all non-null; an item for which one of them cannot be
\* resolved is not persisted.
C14_ClassifiedOrNotPersisted ==
    Added =>
        /\ \A r \in call.sent :
              /\ Truthy(r.data.skill_id)
              /\ Truthy(r.data.domain_id)
              /\ Truthy(r.data.subject_id)
        /\ Unresolved(call.importer, call.overview) =>
              /\ call.sent = {}
              /\ table = call.before
              /\ call.status # "imported"

\* C14 witness: an item with an identifier that is not in the table and a
\* skill code that is not in the skill table was skipped.
C14_Witness ==
    /\ AddedBy("resumable")
    /\ call.overview.skill_cd = <<"Z", "Z", "Z">>
    /\ call.before = {}
    /\ call.env = "ok"
    /\ call.status = "skipped"
    /\ table = {}

\* The duplicate check of add_question finds the item in the table.
DuplicateFound ==
    \/ /\ Truthy(call.overview.external_id)
       /\ check_question_exists_by_external_id(call.before,
                                               call.overview.external_id, call.env)
    \/ /\ Truthy(call.overview.ibn)
       /\ check_question_exists_by_ibn(call.before, call.overview.ibn, call.env)

UnknownSkillCase ==
    /\ AddedBy("resumable")
    /\ HasId(call.overview)
    /\ call.overview.skill_cd \notin DOMAIN SAT_SKILL_MAPPING

OnlyCounted(c) ==
    /\ call[c] = 1
    /\ \A d \in {"imported", "duplicates", "skipped", "failed"} \ {c} : call[d] = 0

IdentityPresent ==
    \E r \in call.before :
        \/ Truthy(call.overview.external_id)
              /\ r.sat_external_id = call.overview.external_id
        \/ Truthy(call.overview.ibn) /\ r.sat_ibn = call.overview.ibn

LegacyCase ==
    /\ AddedBy("resumable")
    /\ ~Truthy(call.overview.external_id) /\ Truthy(call.overview.ibn)
    /\ call.question.shape = "list"

\* C19: for a legacy detail, style SPR gives no options and no correct
\* answer; otherwise there is one option per key of choices, and is_correct
\* is true for exactly the option whose upper-cased key is the upper-cased
\* correct_choice.
C19_LegacyOptions ==
    LegacyCase =>
        \A r \in call.sent :
            IF call.question.style = "SPR"
                THEN r.data.answer_options.null /\ r.data.correct_answers = <<>>
            ELSE LET options == r.data.answer_options.options
                     choices == call.question.choices
                 IN  /\ Len(options) = Len(choices)
                     /\ \A k \in 1..Len(options) :
                           /\ options[k].id = upper(choices[k])
                           /\ options[k].is_correct
                                <=> (upper(choices[k])
                                        = upper(call.question.correct_choice))

-----------------------------------------------------------------------------
(* get_domain_subject_mapping applied to one skill code *)

MaxCodeLen == 4

\* The codes of the skill table, and every string of at most MaxCodeLen
\* characters over a few of the characters the codes are made of.
SkillCodes ==
    DOMAIN SAT_SKILL_MAPPING \cup SeqsUpTo({"H", ".", "A", "Z"}, MaxCodeLen)

PureFrame ==
    UNCHANGED <<overview_data, table, progress_data, progress_file, calls, last,
                call, runs, ref_table, ref_progress, final, ui>>

PureInit ==
    /\ overview_data = <<>>
    /\ table = {}
    /\ progress_file = <<>>
    /\ progress_data = <<>>
    /\ calls = 0
    /\ last = NoOp
    /\ call = NoOp
    /\ runs = NoOp
    /\ ref_table = {}
    /\ ref_progress = <<>>
    /\ final = NoOp
    /\ ui = NoOp

InitClassify ==
    /\ \E skill_code \in SkillCodes :
          pure = [op |-> "classify", phase |-> "args", skill_code |-> skill_code]
    /\ PureInit

Classify ==
    /\ pure.op = "classify" /\ pure.phase = "args"
    /\ pure' = [op |-> "classify", phase |-> "returned",
                skill_code |-> pure.skill_code,
                result |-> get_domain_subject_mapping(pure.skill_code)]
    /\ PureFrame

NextClassify == Classify

SpecClassify == InitClassify /\ [][NextClassify]_vars

-----------------------------------------------------------------------------
(* preprocess_mathml and preprocess_mathml_content applied to one text *)

MaxPieces == 3

MFENCED_OPEN == <<"<", "m", "f", "e", "n", "c", "e", "d", ">">>
MFENCED_CLOSE == <<"<", "/", "m", "f", "e", "n", "c", "e", "d", ">">>
MO_OPEN == <<"<", "m", "o", ">", "(", "<", "/", "m", "o", ">">>
MO_CLOSE == <<"<", "m", "o", ">", ")", "<", "/", "m", "o", ">">>

\* str.replace(old, new) that replaces the first occurrence only.
RECURSIVE replace_first(_, _, _)
replace_first(s, old, new) ==
    IF Len(s) < Len(old) THEN s
    ELSE IF startswith(s, old) THEN new \o SubSeq(s, Len(old) + 1, Len(s))
    ELSE <<Head(s)>> \o replace_first(Tail(s), old, new)

\* str.replace(old, new): every occurrence, left to right, without overlap
RECURSIVE replace(_, _, _)
replace(s, old, new) ==
    IF Len(s) < Len(old) THEN s
    ELSE IF startswith(s, old)
        THEN new \o replace(SubSeq(s, Len(old) + 1, Len(s)), old, new)
    ELSE <<Head(s)>> \o replace(Tail(s), old, new)

\* A text is None or a string.
NoText == [null |-> TRUE, chars |-> <<>>]

Text(chars) == [null |-> FALSE, chars |-> chars]

preprocess_mathml(text) ==
    IF text.null \/ text.chars = <<>> THEN text        \* if not text
    ELSE Text(replace(replace(text.chars, MFENCED_OPEN, MO_OPEN),
                      MFENCED_CLOSE, MO_CLOSE))

preprocess_mathml_content(text) ==
    IF text.null \/ text.chars = <<>> THEN text
    ELSE Text(replace(replace(text.chars, MFENCED_OPEN, MO_OPEN),
                      MFENCED_CLOSE, MO_CLOSE))

\* Fragments of markup: the two tags, their replacements, and parts of tags.
Pieces ==
    {MFENCED_OPEN, MFENCED_CLOSE, MO_OPEN, <<"x">>, <<"<">>, <<"/">>,
     <<"<", "m", "f">>, <<"m", "f", "e", "n", "c", "e", "d", ">">>}

RECURSIVE Concats(_)
Concats(n) ==
    IF n = 0 THEN {<<>>}
    ELSE LET shorter == Concats(n - 1)
         IN  shorter \cup {s \o p : s \in shorter, p \in Pieces}

Texts == {NoText} \cup {Text(chars) : chars \in Concats(MaxPieces)}

InitMathml ==
    /\ \E text \in Texts :
          pure = [op |-> "mathml", phase |-> "args", fn |-> "none", text |-> text,
                  once |-> NoText, twice |-> NoText]
    /\ PureInit

\* preprocess_mathml applied to the text, then to its own result
PreprocessMathml ==
    /\ pure.op = "mathml"
    /\ \/ /\ pure.phase = "args"
          /\ pure' = [pure EXCEPT !.phase = "once", !.fn = "preprocess_mathml",
                                  !.once = preprocess_mathml(pure.text)]
       \/ /\ pure.phase = "once" /\ pure.fn = "preprocess_mathml"
          /\ pure' = [pure EXCEPT !.phase = "twice",
                                  !.twice = preprocess_mathml(pure.once)]
    /\ PureFrame

\* preprocess_mathml_content applied to the text, then to its own result
PreprocessMathmlContent ==
    /\ pure.op = "mathml"
    /\ \/ /\ pure.phase = "args"
          /\ pure' = [pure EXCEPT !.phase = "once",
                                  !.fn = "preprocess_mathml_content",
                                  !.once = preprocess_mathml_content(pure.text)]
       \/ /\ pure.phase = "once" /\ pure.fn = "preprocess_mathml_content"
          /\ pure' = [pure EXCEPT !.phase = "twice",
                                  !.twice = preprocess_mathml_content(pure.once)]
    /\ PureFrame

NextMathml == PreprocessMathml \/ PreprocessMathmlContent

SpecMathml == InitMathml /\ [][NextMathml]_vars

-----------------------------------------------------------------------------
(* Claims about the pure functions *)

Classified == pure.op = "classify" /\ pure.phase = "returned"

MathPrefixes == {<<"H", ".">>, <<"P", ".">>, <<"Q", ".">>, <<"S", ".">>}

\* C17: the classifier returns a non-null pair for every code of the skill
\* table, and (None, None) for every string that is not in the table.
C17_TableCodesClassifiedOthersNone ==
    Classified =>
        IF pure.skill_code \in DOMAIN SAT_SKILL_MAPPING
            THEN Truthy(pure.result[1]) /\ Truthy(pure.result[2])
        ELSE pure.result = <<None, None>>

\* C17 amended: the classifier returns a non-null pair for every code of the
\* skill table; for a string that is not in the table it returns
\* (None, None), unless the string begins with one of the math prefixes
\* "H.", "P.", "Q.", "S.": then it returns that prefix's domain and "math".
C17_TableCodesClassifiedOthersByPrefix ==
    Classified =>
        IF pure.skill_code \in DOMAIN SAT_SKILL_MAPPING
            THEN Truthy(pure.result[1]) /\ Truthy(pure.result[2])
        ELSE IF \E p \in MathPrefixes : startswith(pure.skill_code, p)
            THEN Truthy(pure.result[1]) /\ pure.result[2] = "math"
        ELSE pure.result = <<None, None>>

\* C17 witness: a string with a math prefix that is not in the table was
\* classified as algebra.
C17_Witness ==
    /\ Classified
    /\ pure.skill_code = <<"H", ".", "Z", ".">>
    /\ pure.skill_code \notin DOMAIN SAT_SKILL_MAPPING
    /\ pure.result = <<"algebra", "math">>

Preprocessed == pure.op = "mathml" /\ pure.phase \in {"once", "twice"}

\* C18: preprocess_mathml is idempotent on every text, and it maps
\* "<mfenced>x</mfenced>" to exactly "<mo>(</mo>x<mo>)</mo>".
C18_IdempotentAndExact ==
    Preprocessed =>
        /\ pure.phase = "twice" => pure.twice = pure.once
        /\ pure.text = Text(MFENCED_OPEN \o <<"x">> \o MFENCED_CLOSE)
              => pure.once = Text(MO_OPEN \o <<"x">> \o MO_CLOSE)

\* C18 witness: a text with two opening tags and a closing tag was
\* rewritten, and the second application left the result as it was.
C18_Witness ==
    /\ Preprocessed /\ pure.phase = "twice"
    /\ pure.text = Text(MFENCED_OPEN \o MFENCED_OPEN \o MFENCED_CLOSE)
    /\ pure.once = Text(MO_OPEN \o MO_OPEN \o MO_CLOSE)
    /\ pure.twice = pure.once

-----------------------------------------------------------------------------
(* import_with_resume on the shapes of the overview response *)

MaxExtraKeys == 1

\* The JSON body of the overview response, as fetch_overview returns it: a
\* bare list, or an object with the key "questions" and extra other keys.
ListResponse(questions) == [shape |-> "list", questions |-> questions, extra |-> 0]

ObjectResponse(questions, extra) ==
    [shape |-> "dict", questions |-> questions, extra |-> extra]

Responses ==
    {ListResponse(l) : l \in OverviewLists}
        \cup {ObjectResponse(l, x) : l \in OverviewLists, x \in 0..MaxExtraKeys}

\* len(overview_list): the length of a list, the number of keys of a dict
py_len(response) ==
    IF response.shape = "list" THEN Len(response.questions) ELSE 1 + response.extra

\* What a call did: raised says it ended with an exception.
ResponseResult(raised, r) ==
    [raised |-> raised, success |-> r.success, total |-> r.total,
     end_index |-> r.end_index, imported |-> r.imported,
     duplicates |-> r.duplicates, skipped |-> r.skipped, failed |-> r.failed,
     table |-> r.table]

\* import_with_resume when fetch_overview returned the response: a dict is
\* not empty, its length is its number of keys, and overview_list[i] with
\* an integer i raises KeyError, which import_with_resume does not catch.
import_with_resume_response(response, start_index, max_questions, tbl, env) ==
    LET zero == [table |-> tbl, imported |-> 0, duplicates |-> 0, skipped |-> 0,
                 failed |-> 0, trace |-> <<>>]
        total_questions == py_len(response)
        end_index == window_end(start_index, max_questions, total_questions)
    IN  IF response.shape = "list"
            THEN ResponseResult(FALSE,
                    import_with_resume([k \in {ComboOrder[1]} |-> response.questions],
                                       ComboOrder[1], start_index, max_questions,
                                       tbl, "ok", env))
        ELSE IF start_index >= total_questions
            THEN ResponseResult(FALSE, ImportResult(FALSE, total_questions, 0, zero))
        ELSE IF start_index < end_index        \* range(start_index, end_index)
            THEN ResponseResult(TRUE, ImportResult(FALSE, total_questions, 0, zero))
        ELSE ResponseResult(FALSE, ImportResult(TRUE, total_questions, end_index, zero))

AllOk(overview_list) == [k \in 1..Len(overview_list) |-> "ok"]

InitObject ==
    /\ call \in {[op |-> "response", phase |-> "args", response |-> r,
                   start_index |-> s, max_questions |-> m] :
                     r \in Responses, s \in CallStarts, m \in CallMaxes}
    /\ overview_data = <<>>
    /\ table = {}
    /\ progress_file = <<>>
    /\ progress_data = <<>>
    /\ calls = 0
    /\ last = NoOp
    /\ runs = NoOp
    /\ ref_table = {}
    /\ ref_progress = <<>>
    /\ final = NoOp
    /\ ui = NoOp
    /\ pure = NoOp

CallImportResponse ==
    /\ call.op = "response" /\ call.phase = "args"
    /\ \E result \in {import_with_resume_response(call.response, call.start_index,
                            call.max_questions, table,
                            AllOk(call.response.questions))} :
          /\ table' = result.table
          /\ call' = [op |-> "response", phase |-> "returned",
                      response |-> call.response,
                      start_index |-> call.start_index,
                      max_questions |-> call.max_questions,
                      before |-> table, raised |-> result.raised,
                      success |-> result.success, total |-> result.total,
                      end_index |-> result.end_index,
                      imported |-> result.imported,
                      duplicates |-> result.duplicates,
                      skipped |-> result.skipped, failed |-> result.failed]
    /\ UNCHANGED <<overview_data, progress_data, progress_file, calls, last,
                   runs, ref_table, ref_progress, final, ui, pure>>

NextObject == CallImportResponse

SpecObject == InitObject /\ [][NextObject]_vars

\* The call on the bare list of the items under the key "questions".
OnQuestions ==
    import_with_resume_response(ListResponse(call.response.questions),
                                call.start_index, call.max_questions, call.before,
                                AllOk(call.response.questions))

\* C20: when the overview response is an object with a "questions" key, the
\* resumable importer computes its window over the items under that key and
\* processes them, and the run does not end with an exception.
C20_ObjectResponseProcessed ==
    (call.op = "response" /\ call.phase = "returned"
        /\ call.response.shape = "dict") =>
        /\ ~call.raised
        /\ call.success = OnQuestions.success
        /\ call.total = OnQuestions.total
        /\ call.end_index = OnQuestions.end_index
        /\ call.imported = OnQuestions.imported
        /\ call.duplicates = OnQuestions.duplicates
        /\ call.skipped = OnQuestions.skipped
        /\ call.failed = OnQuestions.failed
        /\ table = OnQuestions.table

-----------------------------------------------------------------------------
(* populate_sat_modular.py: ModularSATImporter.import_domain, event by event *)

ModularItems ==
    { OvItem("Q1", None, <<"H", ".", "A", ".">>),
      OvItem("Q2", None, <<"Z", "Z", "Z">>),
      OvItem(None, None, <<"H", ".", "A", ".">>) }

ModularLists == SeqsUpTo(ModularItems, MaxLen)

\* The events import_domain is asked for (event_ids): one event of the
\* three, as entered at the prompt of sat_importer_ui.py.
ModularEvents == <<99>>

\* What happens to one item: the detail request times out, its body is not
\* JSON, or the upsert raises.
ModularItemEnvs == {"ok", "detail_timeout", "detail_not_json", "upsert_err"}

ModularEnvs(overview_list) == [1..Len(overview_list) -> ModularItemEnvs]

\* The record ModularSATImporter.add_question sends (no sat_ibn column).
modular_question_record(overview, question) ==
    [origin |-> "sat_official",
     sat_external_id |-> overview.external_id,
     sat_ibn |-> None,
     question_type |-> IF question.type = Absent THEN "mcq" ELSE question.type,
     skill_id |-> skill_get(overview.skill_cd),
     answer_options |-> record_answer_options(overview, question),
     correct_answers |-> record_correct_answers(overview, question),
     domain_id |-> get_domain_subject_mapping(overview.skill_cd)[1],
     subject_id |-> get_domain_subject_mapping(overview.skill_cd)[2]]

\* ModularSATImporter.add_question: the counter it increments and the table.
modular_add_question(overview, question, tbl, e) ==
    IF ~Truthy(overview.external_id) THEN AddResult("skipped", tbl, {})
    ELSE IF ~Truthy(skill_get(overview.skill_cd)) THEN AddResult("skipped", tbl, {})
    ELSE IF ~Truthy(get_domain_subject_mapping(overview.skill_cd)[1])
            \/ ~Truthy(get_domain_subject_mapping(overview.skill_cd)[2])
        THEN AddResult("skipped", tbl, {})
    ELSE LET data == modular_question_record(overview, question)
             response == upsert(tbl, data, "sat_external_id", e)
         IN  IF response.raised
                 THEN AddResult("failed", tbl, {Request(data, "sat_external_id")})
             ELSE IF response.data # {}
                 THEN AddResult("imported", response.table,
                                {Request(data, "sat_external_id")})
             ELSE AddResult("skipped", response.table,
                            {Request(data, "sat_external_id")})

modular_count(acc, k, a) ==
    [acc EXCEPT !.table = a.table,
                !.imported = @ + (IF a.status = "imported" THEN 1 ELSE 0),
                !.skipped = @ + (IF a.status = "skipped" THEN 1 ELSE 0),
                !.failed = @ + (IF a.status = "failed" THEN 1 ELSE 0),
                !.added = @ \cup {k}]

\* The loop over the overview list of one event, inside the try of the
\* event: an exception of the detail request leaves the loop.
RECURSIVE modular_item_loop(_, _, _, _)
modular_item_loop(overview_list, k, env, acc) ==
    IF k > Len(overview_list) THEN acc
    ELSE IF overview_list[k].external_id = None
        THEN modular_item_loop(overview_list, k + 1, env, acc)
    ELSE IF env[k] \in {"detail_timeout", "detail_not_json"}
        THEN [acc EXCEPT !.raised_at = k]
    ELSE modular_item_loop(overview_list, k + 1, env,
            modular_count(acc, k,
                modular_add_question(overview_list[k], DetailMcq, acc.table, env[k])))

\* One iteration of the loop over event_ids.
modular_process_event(overview_list, oe, env, tbl, imported, skipped, failed) ==
    LET zero == [table |-> tbl, imported |-> imported, skipped |-> skipped,
                 failed |-> failed, added |-> {}, raised_at |-> 0]
    IN  IF oe = "fail" \/ overview_list = <<>> THEN zero
        ELSE modular_item_loop(overview_list, 1, env, zero)

NoModularEvent == [event_id |-> 0, oe |-> "none", env |-> <<>>, added |-> {},
                   raised_at |-> 0, imported |-> 0, skipped |-> 0, failed |-> 0]

InitModular ==
    /\ overview_data \in [{ModularEvents[k] : k \in 1..Len(ModularEvents)}
                            -> ModularLists]
    /\ table = {}
    /\ call = [op |-> "modular", phase |-> "running", next_event |-> 1,
               imported |-> 0, skipped |-> 0, failed |-> 0, ev |-> NoModularEvent]
    /\ progress_file = <<>>
    /\ progress_data = <<>>
    /\ calls = 0
    /\ last = NoOp
    /\ runs = NoOp
    /\ ref_table = {}
    /\ ref_progress = <<>>
    /\ final = NoOp
    /\ ui = NoOp
    /\ pure = NoOp

ModularProcessEvent ==
    /\ call.op = "modular" /\ call.phase = "running"
    /\ call.next_event <= Len(ModularEvents)
    /\ \E oe \in OverviewEnvs :
       \E env \in ModularEnvs(overview_data[ModularEvents[call.next_event]]) :
       \E r \in {modular_process_event(overview_data[ModularEvents[call.next_event]],
                                       oe, env, table, call.imported, call.skipped,
                                       call.failed)} :
          /\ table' = r.table
          /\ call' = [op |-> "modular",
                      phase |-> IF call.next_event = Len(ModularEvents)
                                THEN "done" ELSE "running",
                      next_event |-> call.next_event + 1,
                      imported |-> r.imported, skipped |-> r.skipped,
                      failed |-> r.failed,
                      ev |-> [event_id |-> ModularEvents[call.next_event],
                              oe |-> oe, env |-> env, added |-> r.added,
                              raised_at |-> r.raised_at,
                              imported |-> r.imported - call.imported,
                              skipped |-> r.skipped - call.skipped,
                              failed |-> r.failed - call.failed]]
    /\ UNCHANGED <<overview_data, progress_data, progress_file, calls, last,
                   runs, ref_table, ref_progress, final, ui, pure>>

NextModular == ModularProcessEvent

SpecModular == InitModular /\ [][NextModular]_vars

ModularEventDone == call.op = "modular" /\ call.ev.oe = "ok"

\* C21: in import_domain an exception raised while processing one item,
\* including a timeout or a non-JSON body of the detail request, is counted
\* as failed for that item, and the remaining items of the same event's
\* overview are still processed.
C21_ItemExceptionCountedAndLoopGoesOn ==
    ModularEventDone =>
        LET overview_list == overview_data[call.ev.event_id]
            WithId == {k \in 1..Len(overview_list) :
                          overview_list[k].external_id # None}
            Raising == {k \in WithId : call.ev.env[k] # "ok"}
        IN  /\ call.ev.failed = Cardinality(Raising)
            /\ \A k \in WithId \ Raising : k \in call.ev.added

-----------------------------------------------------------------------------
(* The resumable UI when "import next incomplete" is chosen again and again *)

\* Each combination is served its own overview list.
NextOverviewData == [Combos -> MenuOverviews]

InitNext ==
    /\ overview_data \in NextOverviewData
    /\ table = {}
    /\ progress_file = <<>>
    /\ progress_data = load_progress(<<>>)
    /\ calls = 0
    /\ last = NoOp
    /\ call = NoOp
    /\ runs = NoOp
    /\ ref_table = {}
    /\ ref_progress = <<>>
    /\ final = NoOp
    /\ ui = NoOp
    /\ pure = NoOp

\* The combination import_next_incomplete selects.
FirstIncomplete == ComboOrder[CHOOSE m \in Incomplete : \A n \in Incomplete : m <= n]

\* import_next_incomplete on the selected combination: the table, the
\* progress store and its file after the call.
import_next_incomplete(ov, tbl, pd, file, combo_key, oe, oe2, env) ==
    LET start_index == get_combo_progress(pd, combo_key).next_start_index
        result == import_with_resume(ov, combo_key, start_index, NoMax, tbl, oe, env)
        total_questions == Len(fetch_overview(ov, combo_key, oe2))
        updated == update_combo_progress(pd, combo_key, total_questions,
                        result.end_index, result.imported, result.duplicates,
                        result.skipped, result.failed)
    IN  [table |-> result.table,
         progress_data |-> IF result.success THEN updated ELSE pd,
         progress_file |-> IF result.success THEN save_progress(updated) ELSE file,
         last |-> [op |-> "import", combo_key |-> combo_key,
                   start_index |-> start_index,
                   fetched |-> Len(fetch_overview(ov, combo_key, oe)),
                   success |-> result.success, end_index |-> result.end_index,
                   imported |-> result.imported, duplicates |-> result.duplicates,
                   skipped |-> result.skipped, failed |-> result.failed,
                   total_questions |-> IF result.success THEN total_questions ELSE 0]]

NextIncompleteStep(oe, oe2, env) ==
    \E r \in {import_next_incomplete(overview_data, table, progress_data,
                                     progress_file, FirstIncomplete, oe, oe2, env)} :
        /\ table' = r.table
        /\ progress_data' = r.progress_data
        /\ progress_file' = r.progress_file
        /\ last' = r.last

\* One invocation per combination: every list fits one window.
NextRounds == Len(ComboOrder)

\* import_next_incomplete when the vendor answers the overview requests;
\* calls counts these invocations.
NextIncompleteAnswered ==
    /\ calls < NextRounds
    /\ Incomplete # {}
    /\ \E env \in MenuEnvs(overview_data[FirstIncomplete]) :
          NextIncompleteStep("ok", "ok", env)
    /\ calls' = calls + 1
    /\ MenuFrame

\* import_next_incomplete when an overview request fails
NextIncompleteOverviewFails ==
    /\ calls < NextRounds
    /\ Incomplete # {}
    /\ \/ NextIncompleteStep("fail", "ok", <<>>)
       \/ \E env \in MenuEnvs(overview_data[FirstIncomplete]) :
             NextIncompleteStep("ok", "fail", env)
    /\ UNCHANGED calls
    /\ MenuFrame

NextNext == NextIncompleteAnswered \/ NextIncompleteOverviewFails

SpecNext == InitNext /\ [][NextNext]_vars

\* C22: repeatedly invoking "import next incomplete" eventually processes
\* every partition whose overview is not empty, rather than selecting the
\* same partition on every invocation: after one answered invocation per
\* partition (each list fits one window) every such partition has a record.
C22_EveryNonEmptyPartitionProcessed ==
    calls = NextRounds =>
        \A combo_key \in Combos :
            overview_data[combo_key] # <<>> => combo_key \in DOMAIN progress_data

-----------------------------------------------------------------------------
(* The resumable UI interrupted (KeyboardInterrupt) during a window *)

\* Where the interrupt lands in the iteration of an item: in the detail
\* request (or the sleep after the item), in the existence check, or in
\* the upsert request.
InterruptPoints == {"fetch", "check", "upsert"}

IntrFrame ==
    UNCHANGED <<overview_data, calls, call, ref_table, ref_progress, final, ui, pure>>

InitInterrupt ==
    /\ overview_data \in {[k \in Combos |-> l] : l \in OverviewLists}
    /\ runs = [op |-> "interrupt", phase |-> "start", exited |-> FALSE,
               error |-> FALSE, before_file |-> <<>>, persisted_before |-> {},
               persisted |-> {}, trace |-> <<>>]
    /\ table = {}
    /\ progress_file = <<>>
    /\ progress_data = load_progress(progress_file)
    /\ last = NoOp
    /\ calls = 0
    /\ call = NoOp
    /\ ref_table = {}
    /\ ref_progress = <<>>
    /\ final = NoOp
    /\ ui = NoOp
    /\ pure = NoOp

\* import_specific_menu, option 2 with a maximum of one question: a window
\* that went through before the interrupted one.
EarlierWindow ==
    /\ runs.op = "interrupt" /\ runs.phase = "start"
    /\ progress_file = <<>>
    /\ PerformImport(ComboOrder[1], 2, 0, <<1>>, "ok", "ok",
                     AllOk(overview_data[ComboOrder[1]]))
    /\ UNCHANGED runs
    /\ IntrFrame

\* The faults of a window in which the existence check of position k was
\* interrupted: the bare except of the check returns False.
CheckSwallowedAt(overview_list, k) ==
    [n \in 1..Len(overview_list) |-> IF n = k THEN "check_err" ELSE "ok"]

\* import_with_resume from the stored position, interrupted in the
\* iteration of index i at the point given; landed says whether the row of
\* an interrupted upsert request reached the table. exited is whether the
\* KeyboardInterrupt reaches run_menu, which then leaves its loop; sofar is
\* the table when the interrupt lands.
interrupted_window(ov, combo_key, pd, file, tbl, i, point, landed) ==
    LET overview_list == fetch_overview(ov, combo_key, "ok")
        start_index == get_combo_progress(pd, combo_key).next_start_index
        zero == [table |-> tbl, imported |-> 0, duplicates |-> 0, skipped |-> 0,
                 failed |-> 0, trace |-> <<>>]
        sofar == import_loop(overview_list, start_index, i,
                             AllOk(overview_list), zero)
        item == process_item(overview_list[i + 1], sofar.table, "ok")
    IN  IF point = "check"
            THEN LET r == import_next_incomplete(ov, tbl, pd, file, combo_key,
                               "ok", "ok", CheckSwallowedAt(overview_list, i + 1))
                 IN  [exited |-> FALSE, table |-> r.table, sofar |-> sofar.table,
                      progress_data |-> r.progress_data,
                      progress_file |-> r.progress_file]
        ELSE IF point = "upsert" /\ landed
            THEN [exited |-> TRUE, table |-> item.table, sofar |-> sofar.table,
                  progress_data |-> pd, progress_file |-> file]
        ELSE [exited |-> TRUE, table |-> sofar.table, sofar |-> sofar.table,
              progress_data |-> pd, progress_file |-> file]

\* The interrupt can land at the point in the iteration of index i.
InterruptAt(overview_list, tbl, i, point) ==
    LET overview == overview_list[i + 1]
    IN  /\ HasId(overview)
        /\ point = "upsert" => process_item(overview, tbl, "ok").sent # {}

\* import_specific_menu, option 1, and Ctrl-C while the window runs
InterruptedWindow ==
    /\ runs.op = "interrupt" /\ runs.phase = "start"
    /\ LET overview_list == overview_data[ComboOrder[1]]
           start_index == get_combo_progress(progress_data,
                                             ComboOrder[1]).next_start_index
       IN  \E i \in start_index..(Len(overview_list) - 1) :
           \E point \in InterruptPoints, landed \in BOOLEAN :
           \E r \in {interrupted_window(overview_data, ComboOrder[1], progress_data,
                                        progress_file, table, i, point, landed)} :
              /\ InterruptAt(overview_list,
                             import_loop(overview_list, start_index, i,
                                 AllOk(overview_list),
                                 [table |-> table, imported |-> 0,
                                  duplicates |-> 0, skipped |-> 0, failed |-> 0,
                                  trace |-> <<>>]).table,
                             i, point)
              /\ point # "upsert" => ~landed
              /\ table' = r.table
              /\ progress_data' = r.progress_data
              /\ progress_file' = r.progress_file
              /\ runs' = [runs EXCEPT !.phase = "interrupted",
                                      !.exited = r.exited,
                                      !.before_file = progress_file,
                                      !.persisted_before = r.sofar \ table,
                                      !.persisted = r.table \ table]
    /\ UNCHANGED last
    /\ IntrFrame

\* A new process: load_progress, then import_specific_menu, option 1
ResumeAfterInterrupt ==
    /\ runs.op = "interrupt" /\ runs.phase = "interrupted" /\ runs.exited
    /\ LET pd == load_progress(progress_file)
           start_index == get_combo_progress(pd, ComboOrder[1]).next_start_index
       IN  \E oe2 \in OverviewEnvs :
           \E env \in MenuEnvs(overview_data[ComboOrder[1]]) :
           \E r \in {import_next_incomplete(overview_data, table, pd, progress_file,
                                            ComboOrder[1], "ok", oe2, env)} :
              /\ table' = r.table
              /\ progress_data' = r.progress_data
              /\ progress_file' = r.progress_file
              /\ last' = r.last
              /\ runs' = [runs EXCEPT
                            !.phase = "resumed",
                            !.trace = import_with_resume(overview_data,
                                          ComboOrder[1], start_index, NoMax, table,
                                          "ok", env).trace]
    /\ IntrFrame

NextInterrupt == EarlierWindow \/ InterruptedWindow \/ ResumeAfterInterrupt

SpecInterrupt == InitInterrupt /\ [][NextInterrupt]_vars

\* The row of the overview item is one the interrupted window persisted.
PersistedBefore(overview) ==
    \E row \in runs.persisted :
        \/ Truthy(overview.external_id) /\ row.sat_external_id = overview.external_id
        \/ Truthy(overview.ibn) /\ row.sat_ibn = overview.ibn

\* C23: if a window is interrupted after some of its items were persisted,
\* the process leaves its menu loop without an error, the durable progress
\* record is what it was before the window started, and a later resume from
\* that record counts each already persisted item as duplicate and imports
\* none of them a second time.
C23_InterruptStopsCleanlyAndResumes ==
    (runs.op = "interrupt" /\ runs.phase \in {"interrupted", "resumed"}
        /\ runs.persisted_before # {}) =>
        /\ runs.exited /\ ~runs.error
        /\ runs.phase = "interrupted" => progress_file = runs.before_file
        /\ runs.phase = "resumed" =>
              \A k \in 1..Len(runs.trace) :
                  PersistedBefore(overview_data[ComboOrder[1]][runs.trace[k].index + 1])
                      => runs.trace[k].status = "duplicate"

-----------------------------------------------------------------------------
(* Claims about the one-shot importer after a timeout *)

\* A detail request of the event just processed timed out, with the flag
\* clear when the event started: the importer broke out of the event.
BrokeOutOnTimeout ==
    /\ final.op = "final" /\ final.ev.event_id # 0
    /\ ~final.ev.flag_before
    /\ final.ev.timeouts > 0

\* C24: after a detail-fetch timeout makes the importer break out of one
\* event, the later events of the same domain are still imported: in an
\* event whose overview and detail fetches all succeed every overview item
\* (with an external id) is passed to add_question.
C24_LaterEventsStillImported ==
    [][(BrokeOutOnTimeout /\ final'.domain = final.domain
            /\ final'.ev.event_id # final.ev.event_id /\ final'.ev.clean)
        => final'.ev.passed = final'.ev.with_id]_vars

-----------------------------------------------------------------------------
(* populate_sat_questions_modular.py, the script sat_import_ui.py launches *)

\* The interpreter compiles the whole file before it runs a statement of it.
\* The docstring and the try of add_question (228-229) stand at the column
\* of their def (227): "IndentationError: expected an indented block after
\* function definition on line 227".
script_compiles == FALSE

\* The overview of the partition the window selected, and the type of the
\* detail document the question API gives for its items.
ScriptLists == ModularLists
ScriptCombos == {<<1, "INI", 99>>, <<2, "H", 100>>}
ScriptDetailTypes == {"mcq", "spr"}

\* python populate_sat_questions_modular.py --test --domain --event: the
\* exit status of the interpreter, the table and the counters of the
\* SATQuestionImporter it leaves.  The compile error ends the process with
\* status 1 before main() or any call of add_question.
run_script(overview_list, detail_type, tbl) ==
    [return_code |-> IF script_compiles THEN 0 ELSE 1,
     table |-> tbl,
     add_question_calls |-> IF script_compiles THEN Len(overview_list) ELSE 0,
     imported_count |-> 0, duplicate_count |-> 0, failed_count |-> 0,
     skipped_count |-> 0]

InitScript ==
    /\ overview_data \in [ScriptCombos -> ScriptLists]
    /\ table = {}
    /\ call = [op |-> "script", phase |-> "idle", combo |-> <<0, "", 0>>,
               detail_type |-> "none", return_code |-> 0, completed |-> {},
               add_question_calls |-> 0, imported_count |-> 0,
               duplicate_count |-> 0, failed_count |-> 0, skipped_count |-> 0]
    /\ progress_file = <<>>
    /\ progress_data = <<>>
    /\ calls = 0
    /\ last = NoOp
    /\ runs = NoOp
    /\ ref_table = {}
    /\ ref_progress = <<>>
    /\ final = NoOp
    /\ ui = NoOp
    /\ pure = NoOp

\* SATImportUI.run_import: the script is started for the selection, its
\* output is streamed, and the selection is marked completed when the exit
\* status is 0.
ScriptRunImport ==
    /\ call.op = "script"
    /\ calls < MaxCalls
    /\ \E c \in ScriptCombos, detail_type \in ScriptDetailTypes :
       \E r \in {run_script(overview_data[c], detail_type, table)} :
          /\ table' = r.table
          /\ call' = [op |-> "script", phase |-> "ended", combo |-> c,
                      detail_type |-> detail_type,
                      return_code |-> r.return_code,
                      completed |-> IF r.return_code = 0
                                    THEN call.completed \cup {c}
                                    ELSE call.completed,
                      add_question_calls |-> r.add_question_calls,
                      imported_count |-> r.imported_count,
                      duplicate_count |-> r.duplicate_count,
                      failed_count |-> r.failed_count,
                      skipped_count |-> r.skipped_count]
    /\ calls' = calls + 1
    /\ UNCHANGED <<overview_data, progress_data, progress_file, last, runs,
                   ref_table, ref_progress, final, ui, pure>>

NextScript == ScriptRunImport

SpecScript == InitScript /\ [][NextScript]_vars

\* An overview item add_question is to store: it has an external id and a
\* skill code of SAT_SKILL_MAPPING.
ScriptStorable(overview) ==
    Truthy(overview.external_id) /\ skill_get(overview.skill_cd) # None

\* C25: when the window has run the script for a partition whose overview
\* items all have an external id and a skill code that resolves, and the
\* details are mcq documents, every item was handed to add_question, is in
\* the table, and raised exactly one of imported_count, duplicate_count and
\* failed_count.
C25_AddQuestionUpsertsAndCountsOnce ==
    (/\ call.op = "script" /\ call.phase = "ended"
     /\ call.detail_type = "mcq"
     /\ overview_data[call.combo] # <<>>
     /\ \A k \in DOMAIN overview_data[call.combo] :
            ScriptStorable(overview_data[call.combo][k]))
    => /\ call.add_question_calls = Len(overview_data[call.combo])
       /\ call.imported_count + call.duplicate_count + call.failed_count
            = call.add_question_calls
       /\ \A k \in DOMAIN overview_data[call.combo] :
            \E row \in table :
                row.sat_external_id = overview_data[call.combo][k].external_id

-----------------------------------------------------------------------------
(* Claims about the stored progress records of the resumable UI (Spec) *)

\* C26: in every stored progress record, after any sequence of menu imports
\* (resume, custom start position, restart from the beginning), imported +
\* duplicates + skipped + failed equals processed_questions, which equals
\* next_start_index.
C26_CountersSumToProcessed ==
    \A combo_key \in DOMAIN progress_file :
        /\ progress_file[combo_key].imported + progress_file[combo_key].duplicates
             + progress_file[combo_key].skipped + progress_file[combo_key].failed
             = progress_file[combo_key].processed_questions
        /\ progress_file[combo_key].processed_questions
             = progress_file[combo_key].next_start_index

\* The import of the step was served the unchanged overview list of its
\* partition by both of its overview requests.
OverviewServedUnchanged ==
    /\ last'.op = "import"
    /\ last'.fetched = Len(overview_data[last'.combo_key])
    /\ last'.success
    /\ last'.total_questions = Len(overview_data[last'.combo_key])

\* C27: once the stored record of a partition has completed = true it stays
\* true, and its next_start_index never decreases, under any later import of
\* that partition that is served the unchanged overview list.
C27_CompletedAndIndexNeverGoBack ==
    [][\A combo_key \in DOMAIN progress_file :
          (OverviewServedUnchanged /\ last'.combo_key = combo_key)
          => /\ progress_file[combo_key].completed
                    => progress_file'[combo_key].completed
             /\ progress_file'[combo_key].next_start_index
                    >= progress_file[combo_key].next_start_index]_vars

\* C28: an import records completed = true for its partition only when the
\* window it processed ended at the last item of the overview list it
\* processed (so not when the overview request made after the import fails
\* and gives total 0), and every stored record has next_start_index <=
\* total_questions.
C28_CompletedOnlyAtEndOfProcessedList ==
    [][(last'.op = "import" /\ last'.success)
       => /\ progress_file'[last'.combo_key].completed
                => last'.end_index = last'.fetched
          /\ \A combo_key \in DOMAIN progress_file' :
                progress_file'[combo_key].next_start_index
                    <= progress_file'[combo_key].total_questions]_vars

\* The overview item has a row in the backend table.
InBackendTable(overview) ==
    \E row \in table :
        \/ Truthy(overview.external_id) /\ row.sat_external_id = overview.external_id
        \/ Truthy(overview.ibn) /\ row.sat_ibn = overview.ibn

\* C29: when import_next_incomplete, which resumes from the stored
\* next_start_index only, has marked a partition complete at the end of its
\* overview list, every overview item of the partition that has an
\* identifier and a classifiable skill code has a row in the backend table:
\* no item whose detail fetch or upsert failed is left behind the index.
C29_CompleteMeansEveryItemPersisted ==
    \A combo_key \in DOMAIN progress_file :
        (/\ progress_file[combo_key].completed
         /\ progress_file[combo_key].total_questions = Len(overview_data[combo_key])
         /\ progress_file[combo_key].next_start_index = Len(overview_data[combo_key]))
        => \A k \in DOMAIN overview_data[combo_key] :
              (/\ Truthy(overview_data[combo_key][k].external_id)
                    \/ Truthy(overview_data[combo_key][k].ibn)
               /\ skill_get(overview_data[combo_key][k].skill_cd) # None)
              => InBackendTable(overview_data[combo_key][k])

-----------------------------------------------------------------------------
(* Two resumable-UI processes on one progress file *)

Procs == {1, 2}

\* The partition each process imports: a different one each.
ProcCombo(p) == ComboOrder[p]

\* import_specific_menu, option 1, run on the progress store of one process:
\* the import from the stored next_start_index, the second overview request
\* and update_combo_progress with its save_progress.
import_specific_resume(ov, tbl, pd, file, combo_key, oe, oe2, env) ==
    import_next_incomplete(ov, tbl, pd, file, combo_key, oe, oe2, env)

InitShared ==
    /\ overview_data \in NextOverviewData
    /\ table = {}
    /\ progress_file = <<>>
    /\ progress_data = <<>>
    /\ runs = [op |-> "shared",
               started |-> [p \in Procs |-> FALSE],
               mem |-> [p \in Procs |-> <<>>],
               writes |-> [p \in Procs |-> 0]]
    /\ calls = 0
    /\ last = NoOp
    /\ call = NoOp
    /\ ref_table = {}
    /\ ref_progress = <<>>
    /\ final = NoOp
    /\ ui = NoOp
    /\ pure = NoOp

\* main of one process: SATImportProgressManager() loads the progress file
\* into self.progress_data once.
SharedStart ==
    /\ runs.op = "shared"
    /\ \E p \in Procs :
          /\ ~runs.started[p]
          /\ runs' = [runs EXCEPT !.started[p] = TRUE,
                                  !.mem[p] = load_progress(progress_file)]
    /\ UNCHANGED <<overview_data, table, progress_data, progress_file, calls,
                   last, call, ref_table, ref_progress, final, ui, pure>>

\* One process imports its partition; save_progress dumps the whole
\* self.progress_data of that process over the file.
SharedImport ==
    /\ runs.op = "shared"
    /\ calls < MaxCalls
    /\ \E p \in Procs :
          /\ runs.started[p]
          /\ \E oe2 \in OverviewEnvs :
             \E env \in MenuEnvs(overview_data[ProcCombo(p)]) :
             \E r \in {import_specific_resume(overview_data, table, runs.mem[p],
                            progress_file, ProcCombo(p), "ok", oe2, env)} :
                /\ table' = r.table
                /\ progress_file' = r.progress_file
                /\ last' = r.last
                /\ runs' = [runs EXCEPT !.mem[p] = r.progress_data,
                                        !.writes[p] =
                                            IF r.last.success THEN @ + 1 ELSE @]
    /\ calls' = calls + 1
    /\ UNCHANGED <<overview_data, progress_data, call, ref_table, ref_progress,
                   final, ui, pure>>

NextShared == SharedStart \/ SharedImport

SpecShared == InitShared /\ [][NextShared]_vars

\* C30: when two processes sharing one progress file have each imported a
\* different partition and written their update, the file holds the record
\* each process wrote for its partition: neither write lost or reverted the
\* record of the other.
C30_BothUpdatesInSharedFile ==
    (runs.op = "shared" /\ \A p \in Procs : runs.writes[p] > 0)
    => \A p \in Procs :
          /\ ProcCombo(p) \in DOMAIN progress_file
          /\ progress_file[ProcCombo(p)] = runs.mem[p][ProcCombo(p)]

====
